---------------------------- MODULE Spec2Model ----------------------------
(***************************************************************************)
(* A model of blend/go-html (src/html.go, the version that starts at line  *)
(* 753 of the file): the tag tokenizer readTag, the script-body scanner    *)
(* readUntilScriptTagClose, the Tag-Context Stack elementStack and the     *)
(* recursive-descent tree builder parseChildren behind Parse and           *)
(* ParseStrict.                                                            *)
(*                                                                         *)
(* Text is a sequence of one-character strings ([]rune).  Cursors are      *)
(* 0-based as in the Go code, so text[*cursor] is text[cursor + 1] here    *)
(* and the Go slice text[a:b] is SubSeq(text, a + 1, b).                   *)
(***************************************************************************)
EXTENDS Integers, Sequences, FiniteSets

VARIABLES
    body,       \* Parse/ParseStrict: the input, []rune(body)
    strict,     \* parseChildren: shouldCheckElementStack of the running parse
    cursor,     \* parseChildren: *cursor, shared by every recursion level
    frames,     \* the active calls of parseChildren, outermost first
    pc,         \* position of the innermost call of parseChildren
    read_tag,   \* parseChildren: read_tag of the innermost call
    err,        \* the error value being returned
    out,        \* what Parse (FALSE) and ParseStrict (TRUE) returned
    tag_text,   \* readTag called on its own: text
    tag,        \* readTag called on its own: its locals and its result
    scr_text,   \* readUntilScriptTagClose called on its own: text
    scr_type,   \* readUntilScriptTagClose called on its own: scriptType
    scr,        \* readUntilScriptTagClose called on its own: its locals
    doc,        \* the input as it was written: its pieces (never read by the code)
    heap,       \* elementStack used on its own: the elementStackNode values allocated
    stacks,     \* elementStack used on its own: the elementStack values allocated
    ret,        \* elementStack used on its own: the last call and what it returned
    cells,      \* AddChild with its pointers: the Element values in memory
    calls,      \* AddChild with its pointers: parentElement of each active call
    root_at     \* AddChild with its pointers: where the returned Element is

vars == <<doc, body, strict, cursor, frames, pc, read_tag, err, out,
          tag_text, tag, scr_text, scr_type, scr, heap, stacks, ret,
          cells, calls, root_at>>

parseVars == <<body, strict, cursor, frames, pc, read_tag, err, out>>
tagVars == <<tag_text, tag>>
scrVars == <<scr_text, scr_type, scr>>
stkVars == <<heap, stacks, ret>>
treeVars == <<cells, calls, root_at>>

\* a nil *Element
Nil == [IsNil |-> TRUE]

\* a nil error: a message is a non-empty sequence (errors.New is never given
\* an empty text)
NoError == <<>>

\* the zero value of a rune variable that has not been assigned: no character
NoRune == "nil"

\* an entry point that has not returned
NotReturned == [returned |-> FALSE]

-----------------------------------------------------------------------------
(* Characters and strings *)

EMPTY == <<>>

quote_double == "\""
quote_single == "'"

UpperCase == <<"A","B","C","D","E","F","G","H","I","J","K","L","M",
               "N","O","P","Q","R","S","T","U","V","W","X","Y","Z">>
LowerCase == <<"a","b","c","d","e","f","g","h","i","j","k","l","m",
               "n","o","p","q","r","s","t","u","v","w","x","y","z">>

\* strings.ToLower on one rune
ToLowerRune(c) ==
    IF \E i \in DOMAIN UpperCase : UpperCase[i] = c
    THEN LowerCase[CHOOSE i \in DOMAIN UpperCase : UpperCase[i] = c]
    ELSE c

\* strings.ToLower
ToLower(s) == [i \in 1..Len(s) |-> ToLowerRune(s[i])]

isWhitespace(char) == char \in {" ", "\t", "\r", "\n"}

\* a check of the first character only, against which the text-run
\* property is compared
isLeadingWhitespace(corpus) ==
    corpus = <<>> \/ isWhitespace(corpus[1])

isContinuousWhitespace(corpus) ==
    \A i \in 1..Len(corpus) : isWhitespace(corpus[i])

ELEMENT_INTERNAL_XML_COMMENT == <<"x","m","l","c","o","m","m","e","n","t">>
ELEMENT_INTERNAL_TEXT == <<"t","e","x","t">>
ELEMENT_SCRIPT == <<"s","c","r","i","p","t">>
TEXT_JAVASCRIPT == <<"t","e","x","t","/","j","a","v","a","s","c","r","i","p","t">>

KNOWN_VOID_ELEMENTS ==
    { <<"a","r","e","a">>, <<"b","a","s","e">>, <<"b","r">>, <<"c","o","l">>,
      <<"e","m","b","e","d">>, <<"h","r">>, <<"i","m","g">>,
      <<"i","n","p","u","t">>, <<"k","e","y","g","e","n">>,
      <<"l","i","n","k">>, <<"m","e","n","u","i","t","e","m">>,
      <<"m","e","t","a">>, <<"p","a","r","a","m">>,
      <<"s","o","u","r","c","e">>, <<"t","r","a","c","k">>, <<"w","b","r">> }

isKnownVoidElement(elementName) == ToLower(elementName) \in KNOWN_VOID_ELEMENTS

\* errors.New / fmt.Sprintf: a message is the sequence of its pieces, the
\* literal parts of the format as they are written in the source and every
\* %s argument character by character
\* (the source writes the three examples between backquotes)
ERR_EMPTY_TAG == <<"Empty tag similar to <> or < > or </>">>
ERR_ALMOST_COMMENT == <<"Almost an XML comment but not quite.">>

Digits == <<"0","1","2","3","4","5","6","7","8","9">>

RECURSIVE Itoa(_)
\* the %d verb of fmt.Sprintf, for a non-negative int
Itoa(n) == IF n < 10 THEN <<Digits[n + 1]>>
           ELSE Itoa(n \div 10) \o <<Digits[(n % 10) + 1]>>

-----------------------------------------------------------------------------
(* Element *)

\* Element{}: the zero value (Parent and IsData are not modelled: the parser
\* never reads them)
ZeroElement ==
    [ElementName |-> EMPTY, InnerHTML |-> EMPTY, Attributes |-> <<>>,
     Children |-> <<>>, IsText |-> FALSE, IsVoid |-> FALSE,
     IsComment |-> FALSE, IsRoot |-> FALSE, IsClose |-> FALSE]

\* elem.Attributes[key] = value
MapPut(m, key, value) ==
    [k \in (DOMAIN m) \cup {key} |-> IF k = key THEN value ELSE m[k]]

newTextNode(text) ==
    [ZeroElement EXCEPT !.ElementName = ELEMENT_INTERNAL_TEXT,
                        !.IsText = TRUE, !.IsVoid = TRUE, !.InnerHTML = text]

\* an AddChild that puts the child first (against which the order of the
\* children is compared)
AddChildFirst(e, newChild) == [e EXCEPT !.Children = <<newChild>> \o @]

\* e.AddChild(newChild): the value of e afterwards
AddChild(e, newChild) == [e EXCEPT !.Children = Append(@, newChild)]

-----------------------------------------------------------------------------
(* elementStack: Top is the linked list of nodes, its first entry the top *)

NewStack == [Top |-> <<>>, Count |-> 0]

Push(es, e) == [Top |-> <<e>> \o es.Top, Count |-> es.Count + 1]

\* the stack after Pop (Pop on an empty stack returns before changing it)
Pop(es) == IF es.Top = <<>> THEN es
           ELSE [Top |-> Tail(es.Top), Count |-> es.Count - 1]

Peek(es) == IF es.Top = <<>> THEN Nil ELSE Head(es.Top)

RECURSIVE JoinNames(_)
\* strings.Join(names, " > ")
JoinNames(names) ==
    IF names = <<>> THEN <<>>
    ELSE IF Len(names) = 1 THEN names[1]
    ELSE names[1] \o <<" > ">> \o JoinNames(Tail(names))

\* the walk from Top along Next, prepending: bottom of the stack first
BottomFirst(es) == [i \in 1..Len(es.Top) |-> es.Top[Len(es.Top) + 1 - i]]

ToString(es) ==
    IF es.Top = <<>> THEN <<"*">>
    ELSE JoinNames([i \in 1..Len(es.Top) |-> BottomFirst(es)[i].ElementName])

RECURSIVE PushAll(_, _)
PushAll(es, nodes) ==
    IF nodes = <<>> THEN es ELSE PushAll(Push(es, Head(nodes)), Tail(nodes))

Duplicate(es) == IF es.Top = <<>> THEN NewStack
                 ELSE PushAll(NewStack, BottomFirst(es))

-----------------------------------------------------------------------------
(* elementStack with its pointers: a node is referred to by its index in the
   sequence of the nodes allocated, 0 is the nil pointer; an elementStack
   value holds the index of its Top node and its Count *)

NilNode == 0

\* &elementStack{}
NewStackValue == [Top |-> NilNode, Count |-> 0]

\* Push on the stack value es with the nodes h: the node allocated and the
\* stack value afterwards
PushNode(h, es, e) ==
    [heap |-> Append(h, [Next |-> es.Top, Value |-> e]),
     es |-> [Top |-> Len(h) + 1, Count |-> es.Count + 1]]

RECURSIVE Walk(_, _)
\* the walk for nodePtr != nil { ... nodePtr = nodePtr.Next } that prepends
\* each Value: the values from the last node of the chain to nodePtr
Walk(h, nodePtr) ==
    IF nodePtr = NilNode THEN <<>>
    ELSE Walk(h, h[nodePtr].Next) \o <<h[nodePtr].Value>>

RECURSIVE PushNodes(_, _, _)
\* for _, node := range nodes { new_es.Push(node) }
PushNodes(h, es, nodes) ==
    IF nodes = <<>> THEN [heap |-> h, es |-> es]
    ELSE LET r == PushNode(h, es, Head(nodes))
         IN PushNodes(r.heap, r.es, Tail(nodes))

\* a copy that pushes the values in the order of the walk from Top, without
\* prepending (against which the order of a duplicate is compared)
DuplicateTopFirst(h, es) ==
    IF es.Top = NilNode THEN [heap |-> h, es |-> NewStackValue]
    ELSE PushNodes(h, NewStackValue,
             [i \in 1..Len(Walk(h, es.Top)) |->
                 Walk(h, es.Top)[Len(Walk(h, es.Top)) + 1 - i]])

\* Duplicate of the stack value es: the nodes allocated and the new stack
DuplicateNodes(h, es) ==
    IF es.Top = NilNode THEN [heap |-> h, es |-> NewStackValue]
    ELSE PushNodes(h, NewStackValue, Walk(h, es.Top))

\* a rendering that appends the names in the order of the walk from Top
\* (against which the order of the rendered path is compared)
ToStringTopFirst(h, es) ==
    IF es.Top = NilNode THEN <<"*">>
    ELSE JoinNames([i \in 1..Len(Walk(h, es.Top)) |->
                       Walk(h, es.Top)[Len(Walk(h, es.Top)) + 1 - i].ElementName])

\* ToString of the stack value es
ToStringNodes(h, es) ==
    IF es.Top = NilNode THEN <<"*">>
    ELSE JoinNames([i \in 1..Len(Walk(h, es.Top)) |->
                       Walk(h, es.Top)[i].ElementName])

-----------------------------------------------------------------------------
(* readUntilTag *)

RECURSIVE TagStart(_, _)
\* the cursor where the loop of readUntilTag stops
TagStart(text, c) ==
    IF c < Len(text) /\ ~(~isWhitespace(text[c + 1]) /\ text[c + 1] = "<")
    THEN TagStart(text, c + 1)
    ELSE c

\* the run returned without its leading whitespace (against which the run
\* returned is compared)
readUntilTagTrimmed(text, c) ==
    LET first == IF \E i \in (c + 1)..TagStart(text, c) : ~isWhitespace(text[i])
                 THEN CHOOSE i \in (c + 1)..TagStart(text, c) :
                          /\ ~isWhitespace(text[i])
                          /\ \A j \in (c + 1)..(i - 1) : isWhitespace(text[j])
                 ELSE TagStart(text, c) + 1
    IN [results |-> SubSeq(text, first, TagStart(text, c)),
        cursor |-> TagStart(text, c),
        err |-> NoError]

readUntilTag(text, c) ==
    [results |-> SubSeq(text, c + 1, TagStart(text, c)),
     cursor |-> TagStart(text, c),
     err |-> NoError]

-----------------------------------------------------------------------------
(* readTag: the locals of one call, one loop iteration per step *)

\* the locals of readTag before its loop
TagInit(c) ==
    [state |-> 0, cursor |-> c,
     elem |-> [ZeroElement EXCEPT !.Attributes = <<>>],
     attr_name |-> EMPTY, attr_value |-> EMPTY, element_name |-> EMPTY,
     quote_character |-> NoRune, done |-> FALSE, err |-> NoError]

\* the end of a loop iteration that does not return: the post statement
\* *cursor++ of the for loop
TagContinue(tk) == [tk EXCEPT !.cursor = @ + 1]

\* return &elem, e with the cursor left at c
TagReturn(tk, elem, c, e) ==
    [tk EXCEPT !.elem = elem, !.cursor = c, !.done = TRUE, !.err = e]

\* elem.ElementName = strings.ToLower(element_name)
WithName(tk) == [tk.elem EXCEPT !.ElementName = ToLower(tk.element_name)]

\* ... followed by elem.IsVoid = elem.IsVoid || isKnownVoidElement(elem.ElementName)
WithNameAndVoid(tk) ==
    [WithName(tk) EXCEPT !.IsVoid = @ \/ isKnownVoidElement(ToLower(tk.element_name))]

\* elem.Attributes[strings.ToLower(attr_name)] = value
\* the attribute stored under its name as written (against which the
\* lower-casing of the keys is compared)
WithAttributeAsWritten(tk, value) ==
    [tk.elem EXCEPT !.Attributes = MapPut(@, tk.attr_name, value)]

WithAttribute(tk, value) ==
    [tk.elem EXCEPT !.Attributes = MapPut(@, ToLower(tk.attr_name), value)]

\* case 0: read until tag begins
TagCase0(tk, c) ==
    TagContinue(IF c = "<" THEN [tk EXCEPT !.state = 1] ELSE tk)

\* case 1: read preamble if any
TagCase1(tk, c) ==
    IF c = "!" THEN
        TagContinue([tk EXCEPT !.elem.IsVoid = TRUE, !.state = 3])
    ELSE IF c = "/" THEN
        TagContinue([tk EXCEPT !.elem.IsClose = TRUE])
    ELSE IF c = ">" THEN
        TagReturn(tk, WithNameAndVoid(tk), tk.cursor + 1, ERR_EMPTY_TAG)
    ELSE IF ~isWhitespace(c) THEN
        TagContinue([tk EXCEPT !.state = 10, !.element_name = Append(@, c)])
    ELSE TagContinue(tk)

\* case 2: read until end of tag (no transition of readTag enters it)
TagCase2(tk, c) ==
    IF c = "/" THEN
        TagContinue([tk EXCEPT !.elem.IsVoid = TRUE])
    ELSE IF c = ">" THEN
        TagReturn(tk, WithNameAndVoid(tk), tk.cursor + 1, NoError)
    ELSE IF ~isWhitespace(c) THEN
        TagContinue([tk EXCEPT !.state = 100, !.element_name = Append(@, c)])
    ELSE TagContinue(tk)

\* case 3: possible xml comment; otherwise *cursor - 1 and the post statement
\* leave the cursor where it is
TagCase3(tk, c) ==
    IF c = "-" THEN TagContinue([tk EXCEPT !.state = 4])
    ELSE TagContinue([tk EXCEPT !.cursor = @ - 1, !.state = 1])

\* case 4 without the advance of the cursor before the error is returned,
\* against which the cursor of a rejected tag is compared
TagCase4Stay(tk, c) ==
    IF c = "-" THEN
        TagContinue([tk EXCEPT !.element_name = ELEMENT_INTERNAL_XML_COMMENT,
                               !.elem.IsComment = TRUE, !.state = 200])
    ELSE TagReturn(tk, [tk.elem EXCEPT !.ElementName = ToLower(tk.element_name)],
                   tk.cursor, ERR_ALMOST_COMMENT)

\* case 4
TagCase4(tk, c) ==
    IF c = "-" THEN
        TagContinue([tk EXCEPT !.element_name = ELEMENT_INTERNAL_XML_COMMENT,
                               !.elem.IsComment = TRUE, !.state = 200])
    ELSE TagReturn(tk, WithName(tk), tk.cursor + 1, ERR_ALMOST_COMMENT)

\* case 10: read elemName
TagCase10(tk, c) ==
    IF isWhitespace(c) THEN TagContinue([tk EXCEPT !.state = 20])
    ELSE IF c = "-" THEN TagContinue([tk EXCEPT !.state = 11])
    ELSE IF c = ">" THEN
        TagReturn(tk, WithNameAndVoid(tk), tk.cursor + 1, NoError)
    ELSE IF c = "/" THEN
        TagReturn(tk, [WithName(tk) EXCEPT !.IsVoid = TRUE], tk.cursor + 1, NoError)
    ELSE TagContinue([tk EXCEPT !.element_name = Append(@, c)])

\* case 20: read until attribute or end of tags
TagCase20(tk, c) ==
    IF c = "/" THEN
        TagReturn(tk, [WithName(tk) EXCEPT !.IsVoid = TRUE], tk.cursor + 1, NoError)
    ELSE IF c = ">" THEN
        TagReturn(tk, WithNameAndVoid(tk), tk.cursor + 1, NoError)
    ELSE IF ~isWhitespace(c) THEN
        TagContinue([tk EXCEPT !.cursor = @ - 1, !.state = 100])
    ELSE TagContinue(tk)

\* case 100: read attribute name
TagCase100(tk, c) ==
    IF c = "=" THEN TagContinue([tk EXCEPT !.state = 101])
    ELSE IF c = ">" \/ c = "/" THEN
        TagContinue([tk EXCEPT !.elem = WithAttribute(tk, EMPTY),
                               !.cursor = @ - 1, !.state = 20])
    ELSE IF isWhitespace(c) THEN
        TagContinue([tk EXCEPT !.elem = WithAttribute(tk, EMPTY),
                               !.attr_name = EMPTY, !.attr_value = EMPTY,
                               !.state = 20])
    ELSE TagContinue([tk EXCEPT !.attr_name = Append(@, c)])

\* case 101: set attribute value quote
TagCase101(tk, c) ==
    IF c = quote_single \/ c = quote_double THEN
        TagContinue([tk EXCEPT !.quote_character = c, !.state = 102])
    ELSE IF ~isWhitespace(c) THEN
        TagContinue([tk EXCEPT !.attr_value = Append(@, c), !.state = 103])
    ELSE TagContinue(tk)

\* case 102 with the value ended by a > as well (against which the end of a
\* quoted value is compared)
TagCase102Gt(tk, c) ==
    IF c = tk.quote_character \/ c = ">" THEN
        TagContinue([tk EXCEPT !.elem = WithAttribute(tk, tk.attr_value),
                               !.attr_name = EMPTY, !.attr_value = EMPTY,
                               !.state = 20])
    ELSE TagContinue([tk EXCEPT !.attr_value = Append(@, c)])

\* case 102: read attribute value (quoted)
TagCase102(tk, c) ==
    IF c = tk.quote_character THEN
        TagContinue([tk EXCEPT !.elem = WithAttribute(tk, tk.attr_value),
                               !.attr_name = EMPTY, !.attr_value = EMPTY,
                               !.state = 20])
    ELSE TagContinue([tk EXCEPT !.attr_value = Append(@, c)])

\* case 103 with the value ended by a > as well (against which the end of
\* an unquoted value is compared)
TagCase103Gt(tk, c) ==
    IF isWhitespace(c) \/ c = ">" THEN
        TagContinue([tk EXCEPT !.elem = WithAttribute(tk, tk.attr_value),
                               !.attr_name = EMPTY, !.attr_value = EMPTY,
                               !.cursor = IF c = ">" THEN @ - 1 ELSE @,
                               !.state = 20])
    ELSE TagContinue([tk EXCEPT !.attr_value = Append(@, c)])

\* case 103: read attribute value (unquoted)
TagCase103(tk, c) ==
    IF isWhitespace(c) THEN
        TagContinue([tk EXCEPT !.elem = WithAttribute(tk, tk.attr_value),
                               !.attr_name = EMPTY, !.attr_value = EMPTY,
                               !.state = 20])
    ELSE TagContinue([tk EXCEPT !.attr_value = Append(@, c)])

\* the two assignments that open case 200
CommentElem(tk) ==
    [tk EXCEPT !.elem.ElementName = ELEMENT_INTERNAL_XML_COMMENT,
               !.elem.IsComment = TRUE]

\* case 200
TagCase200(tk, c) ==
    IF c = "-" THEN TagContinue([CommentElem(tk) EXCEPT !.state = 201])
    ELSE TagContinue([CommentElem(tk) EXCEPT !.elem.InnerHTML = Append(@, c)])

\* case 201
TagCase201(tk, c) ==
    IF c = "-" THEN TagContinue([tk EXCEPT !.state = 202])
    ELSE TagContinue([tk EXCEPT !.state = 200, !.elem.InnerHTML = Append(@, c)])

\* case 202
TagCase202(tk, c) ==
    IF c = ">" THEN TagReturn(tk, WithName(tk), tk.cursor + 1, NoError)
    ELSE TagContinue(tk)

\* one iteration of the loop of readTag: the switch on state.  A state with
\* no case (11, entered from case 10 on a "-") runs no statement.
TagStep(text, tk) ==
    LET c == text[tk.cursor + 1] IN
    CASE tk.state = 0 -> TagCase0(tk, c)
      [] tk.state = 1 -> TagCase1(tk, c)
      [] tk.state = 2 -> TagCase2(tk, c)
      [] tk.state = 3 -> TagCase3(tk, c)
      [] tk.state = 4 -> TagCase4(tk, c)
      [] tk.state = 10 -> TagCase10(tk, c)
      [] tk.state = 20 -> TagCase20(tk, c)
      [] tk.state = 100 -> TagCase100(tk, c)
      [] tk.state = 101 -> TagCase101(tk, c)
      [] tk.state = 102 -> TagCase102(tk, c)
      [] tk.state = 103 -> TagCase103(tk, c)
      [] tk.state = 200 -> TagCase200(tk, c)
      [] tk.state = 201 -> TagCase201(tk, c)
      [] tk.state = 202 -> TagCase202(tk, c)
      [] OTHER -> TagContinue(tk)

\* the statements after the loop: the input ended inside (or before) the tag
TagEof(tk) == TagReturn(tk, WithNameAndVoid(tk), tk.cursor, NoError)

RECURSIVE TagRun(_, _)
TagRun(text, tk) ==
    IF tk.done THEN tk
    ELSE IF tk.cursor < Len(text) THEN TagRun(text, TagStep(text, tk))
    ELSE TagEof(tk)

\* readTag(text, cursor): the record returned, the cursor afterwards, the error
readTag(text, c) ==
    LET tk == TagRun(text, TagInit(c)) IN
    [elem |-> tk.elem, cursor |-> tk.cursor, err |-> tk.err]

-----------------------------------------------------------------------------
(* readUntilScriptTagClose: the locals of one call, one loop iteration per
   step *)

ScriptInit(c) ==
    [state |-> 0, cursor |-> c, starting_position |-> c, tag_start |-> 0,
     working_tag |-> EMPTY, quote_character |-> NoRune,
     done |-> FALSE, results |-> EMPTY]

ScriptContinue(sk) == [sk EXCEPT !.cursor = @ + 1]

\* case 0: only kick off javascript style quote escapes if we are in js
ScriptCase0(sk, c, scriptType) ==
    IF c = "/" /\ scriptType = TEXT_JAVASCRIPT THEN [sk EXCEPT !.state = 21]
    ELSE IF c = "<" THEN [sk EXCEPT !.tag_start = sk.cursor, !.state = 11]
    ELSE IF c = quote_double \/ c = quote_single THEN
        [sk EXCEPT !.state = 30, !.quote_character = c]
    ELSE sk

\* case 11: within a html tag in the code
ScriptCase11(sk, c) == IF c = "/" THEN [sk EXCEPT !.state = 12] ELSE sk

\* case 12, when it does not return
ScriptCase12(sk, c) ==
    IF c = ">" THEN sk
    ELSE IF ~isWhitespace(c) THEN [sk EXCEPT !.working_tag = Append(@, c)]
    ELSE sk

\* case 12 returns on ">" when the collected name is script
ScriptCloses(sk, c) ==
    sk.state = 12 /\ c = ">" /\ ToLower(sk.working_tag) = ELEMENT_SCRIPT

\* case 21: a slash, which might be a comment
ScriptCase21(sk, c) ==
    IF c = "*" THEN [sk EXCEPT !.state = 25]
    ELSE IF c = "/" THEN [sk EXCEPT !.state = 22]
    ELSE [sk EXCEPT !.state = 0]

\* case 22: read comment until newline
ScriptCase22(sk, c) == IF c = "\n" THEN [sk EXCEPT !.state = 0] ELSE sk

\* case 25: almost a block comment close
ScriptCase25(sk, c) == IF c = "*" THEN [sk EXCEPT !.state = 26] ELSE sk

\* case 26: definitely a block comment close
ScriptCase26(sk, c) == IF c = "/" THEN [sk EXCEPT !.state = 0] ELSE sk

\* case 30: inside a string literal
ScriptCase30(sk, c) ==
    IF c = sk.quote_character THEN [sk EXCEPT !.state = 0] ELSE sk

\* one iteration of the loop of readUntilScriptTagClose
ScriptStep(text, sk, scriptType) ==
    LET c == text[sk.cursor + 1] IN
    IF ScriptCloses(sk, c) THEN
        [sk EXCEPT !.cursor = @ + 1, !.done = TRUE,
                   !.results = SubSeq(text, sk.starting_position + 1, sk.tag_start)]
    ELSE ScriptContinue(
        CASE sk.state = 0 -> ScriptCase0(sk, c, scriptType)
          [] sk.state = 11 -> ScriptCase11(sk, c)
          [] sk.state = 12 -> ScriptCase12(sk, c)
          [] sk.state = 21 -> ScriptCase21(sk, c)
          [] sk.state = 22 -> ScriptCase22(sk, c)
          [] sk.state = 25 -> ScriptCase25(sk, c)
          [] sk.state = 26 -> ScriptCase26(sk, c)
          [] sk.state = 30 -> ScriptCase30(sk, c)
          [] OTHER -> sk)

\* the return after the loop: the input ended before a close tag was found
ScriptEof(text, sk) ==
    [sk EXCEPT !.done = TRUE,
               !.results = SubSeq(text, sk.starting_position + 1, sk.cursor)]

RECURSIVE ScriptRun(_, _, _)
ScriptRun(text, sk, scriptType) ==
    IF sk.done THEN sk
    ELSE IF sk.cursor < Len(text)
         THEN ScriptRun(text, ScriptStep(text, sk, scriptType), scriptType)
    ELSE ScriptEof(text, sk)

readUntilScriptTagClose(text, c, scriptType) ==
    LET sk == ScriptRun(text, ScriptInit(c), scriptType) IN
    [results |-> sk.results, cursor |-> sk.cursor]

\* (the source indexes the bytes of string(body) with the rune cursor: the two
\* agree on the one-byte characters used here)
countNewlinesBefore(text, cursorPosition) ==
    Cardinality({x \in 1..cursorPosition : text[x] = "\n"})

-----------------------------------------------------------------------------
(* Parse, ParseStrict and parseChildren.  A frame is one active call of
   parseChildren: its parentElement (the element the pointer refers to), its
   parse_start and its tagStack. *)

RootElement == [ZeroElement EXCEPT !.IsRoot = TRUE]

TopFrame == frames[Len(frames)]

\* both entry points: the locals of the entry point and the first call of
\* parseChildren, which returns nil at once when len(body) == 0
ParseEntry(mode) ==
    /\ pc = "idle"
    /\ ~out[mode].returned
    /\ strict' = mode
    /\ cursor' = 0
    /\ frames' = <<[parentElement |-> RootElement, parse_start |-> 0,
                    tagStack |-> NewStack]>>
    /\ read_tag' = Nil
    /\ err' = NoError
    /\ pc' = IF Len(body) = 0 THEN "return" ELSE "loop"
    /\ UNCHANGED <<doc, body, out, tagVars, scrVars, stkVars, treeVars>>

Parse == ParseEntry(FALSE)

ParseStrict == ParseEntry(TRUE)

\* the text node parseChildren adds for the run it has scanned, if any
WithTextNode(parentElement, results) ==
    IF Len(results) > 0 /\ ~isContinuousWhitespace(results)
    THEN AddChild(parentElement, newTextNode(results))
    ELSE parentElement

\* loop head with input left: readUntilTag and the text node
ScanText ==
    /\ pc = "loop"
    /\ cursor < Len(body)
    /\ LET r == readUntilTag(body, cursor) IN
        /\ cursor' = r.cursor
        /\ frames' = [frames EXCEPT ![Len(frames)].parentElement =
                          WithTextNode(@, r.results)]
    /\ pc' = "tag"
    /\ UNCHANGED <<doc, body, strict, read_tag, err, out, tagVars, scrVars, stkVars, treeVars>>

\* readTag and the return of its error
Tokenize ==
    /\ pc = "tag"
    /\ LET r == readTag(body, cursor) IN
        /\ cursor' = r.cursor
        /\ IF r.err # NoError
           THEN /\ err' = r.err
                /\ read_tag' = Nil
                /\ pc' = "return"
           ELSE /\ err' = err
                /\ read_tag' = r.elem
                /\ pc' = "dispatch"
    /\ UNCHANGED <<doc, body, strict, frames, out, tagVars, scrVars, stkVars, treeVars>>

\* the message of the strict-mode mismatch
MismatchError(tag_read, expected_tag, tagStack) ==
    <<"unexpected close </">> \o tag_read.ElementName
        \o <<"> (expected </">> \o expected_tag.ElementName
        \o <<">) on line: ">> \o Itoa(countNewlinesBefore(body, cursor))
        \o <<"\ncurrent path: ">> \o ToString(tagStack)

\* a close tag that matches nothing ends the level when the stack is not
\* checked (against which the dropping of close tags is compared)
CloseTagReturn ==
    /\ pc = "dispatch"
    /\ read_tag.IsClose
    /\ LET expected_tag == Peek(TopFrame.tagStack) IN
        IF expected_tag = Nil THEN
            /\ pc' = "panic"
            /\ UNCHANGED <<frames, err, read_tag>>
        ELSE IF expected_tag.ElementName = read_tag.ElementName THEN
            /\ frames' = [frames EXCEPT
                   ![Len(frames)].tagStack = Pop(@),
                   ![Len(frames)].parentElement.InnerHTML =
                       SubSeq(body, TopFrame.parse_start + 1, cursor)]
            /\ err' = NoError
            /\ read_tag' = Nil
            /\ pc' = "return"
        ELSE IF strict THEN
            /\ err' = MismatchError(read_tag, expected_tag, TopFrame.tagStack)
            /\ read_tag' = Nil
            /\ pc' = "return"
            /\ UNCHANGED frames
        ELSE
            /\ pc' = "return"
            /\ read_tag' = Nil
            /\ UNCHANGED <<frames, err>>
    /\ UNCHANGED <<doc, body, strict, cursor, out, tagVars, scrVars, stkVars, treeVars>>

\* a close tag that matches nothing is kept as a child when the stack is not
\* checked (against which the handling of close tags is compared)
CloseTagAppend ==
    /\ pc = "dispatch"
    /\ read_tag.IsClose
    /\ LET expected_tag == Peek(TopFrame.tagStack) IN
        IF expected_tag = Nil THEN
            /\ pc' = "panic"
            /\ UNCHANGED <<frames, err, read_tag>>
        ELSE IF expected_tag.ElementName = read_tag.ElementName THEN
            /\ frames' = [frames EXCEPT
                   ![Len(frames)].tagStack = Pop(@),
                   ![Len(frames)].parentElement.InnerHTML =
                       SubSeq(body, TopFrame.parse_start + 1, cursor)]
            /\ err' = NoError
            /\ read_tag' = Nil
            /\ pc' = "return"
        ELSE IF strict THEN
            /\ err' = MismatchError(read_tag, expected_tag, TopFrame.tagStack)
            /\ read_tag' = Nil
            /\ pc' = "return"
            /\ UNCHANGED frames
        ELSE
            /\ frames' = [frames EXCEPT
                   ![Len(frames)].parentElement = AddChild(@, read_tag)]
            /\ pc' = "loop"
            /\ read_tag' = Nil
            /\ UNCHANGED err
    /\ UNCHANGED <<doc, body, strict, cursor, out, tagVars, scrVars, stkVars, treeVars>>

\* read_tag.IsClose: Peek, then the match, the strict error or nothing.
\* Peek returns nil on an empty stack and expected_tag.ElementName then
\* dereferences it: the runtime panics.
CloseTag ==
    /\ pc = "dispatch"
    /\ read_tag.IsClose
    /\ LET expected_tag == Peek(TopFrame.tagStack) IN
        IF expected_tag = Nil THEN
            /\ pc' = "panic"
            /\ UNCHANGED <<frames, err, read_tag>>
        ELSE IF expected_tag.ElementName = read_tag.ElementName THEN
            /\ frames' = [frames EXCEPT
                   ![Len(frames)].tagStack = Pop(@),
                   ![Len(frames)].parentElement.InnerHTML =
                       SubSeq(body, TopFrame.parse_start + 1, cursor)]
            /\ err' = NoError
            /\ read_tag' = Nil
            /\ pc' = "return"
        ELSE IF strict THEN
            /\ err' = MismatchError(read_tag, expected_tag, TopFrame.tagStack)
            /\ read_tag' = Nil
            /\ pc' = "return"
            /\ UNCHANGED frames
        ELSE
            /\ pc' = "loop"
            /\ read_tag' = Nil
            /\ UNCHANGED <<frames, err>>
    /\ UNCHANGED <<doc, body, strict, cursor, out, tagVars, scrVars, stkVars, treeVars>>

\* a void tag handled as a container: the recursive call is made on it
\* (against which the leaves of the tree are compared)
VoidTagDescend ==
    /\ pc = "dispatch"
    /\ ~read_tag.IsClose
    /\ read_tag.IsVoid
    /\ frames' = Append(frames,
           [parentElement |-> read_tag, parse_start |-> cursor,
            tagStack |-> Push(Duplicate(TopFrame.tagStack), read_tag)])
    /\ read_tag' = Nil
    /\ pc' = "loop"
    /\ UNCHANGED <<doc, body, strict, cursor, err, out, tagVars, scrVars, stkVars, treeVars>>

\* read_tag.IsVoid
VoidTag ==
    /\ pc = "dispatch"
    /\ ~read_tag.IsClose
    /\ read_tag.IsVoid
    /\ frames' = [frames EXCEPT ![Len(frames)].parentElement = AddChild(@, read_tag)]
    /\ read_tag' = Nil
    /\ pc' = "loop"
    /\ UNCHANGED <<doc, body, strict, cursor, err, out, tagVars, scrVars, stkVars, treeVars>>

ScriptTypeOf(e) ==
    IF <<"t","y","p","e">> \in DOMAIN e.Attributes
    THEN e.Attributes[<<"t","y","p","e">>]
    ELSE TEXT_JAVASCRIPT

\* read_tag.ElementName == "script"
ScriptTag ==
    /\ pc = "dispatch"
    /\ ~read_tag.IsClose
    /\ ~read_tag.IsVoid
    /\ read_tag.ElementName = ELEMENT_SCRIPT
    /\ LET r == readUntilScriptTagClose(body, cursor, ScriptTypeOf(read_tag)) IN
        /\ cursor' = r.cursor
        /\ frames' = [frames EXCEPT ![Len(frames)].parentElement =
               AddChild(@, AddChild(read_tag, newTextNode(r.results)))]
    /\ read_tag' = Nil
    /\ pc' = "loop"
    /\ UNCHANGED <<doc, body, strict, err, out, tagVars, scrVars, stkVars, treeVars>>

\* a recursive call made with the stack of the caller, pushed on without a
\* Duplicate (against which the stacks of the enclosing levels are compared)
DescendShared ==
    /\ pc = "dispatch"
    /\ ~read_tag.IsClose
    /\ ~read_tag.IsVoid
    /\ read_tag.ElementName # ELEMENT_SCRIPT
    /\ frames' = Append([frames EXCEPT ![Len(frames)].tagStack = Push(@, read_tag)],
           [parentElement |-> read_tag, parse_start |-> cursor,
            tagStack |-> Push(TopFrame.tagStack, read_tag)])
    /\ read_tag' = Nil
    /\ pc' = "loop"
    /\ UNCHANGED <<doc, body, strict, cursor, err, out, tagVars, scrVars, stkVars, treeVars>>

\* any other tag: Duplicate, Push and the recursive call
Descend ==
    /\ pc = "dispatch"
    /\ ~read_tag.IsClose
    /\ ~read_tag.IsVoid
    /\ read_tag.ElementName # ELEMENT_SCRIPT
    /\ frames' = Append(frames,
           [parentElement |-> read_tag, parse_start |-> cursor,
            tagStack |-> Push(Duplicate(TopFrame.tagStack), read_tag)])
    /\ read_tag' = Nil
    /\ pc' = "loop"
    /\ UNCHANGED <<doc, body, strict, cursor, err, out, tagVars, scrVars, stkVars, treeVars>>

\* a loop exit that returns an error when the level is not the first one
\* (against which the end of the input inside a container is compared)
LevelEndUnclosed ==
    /\ pc = "loop"
    /\ cursor >= Len(body)
    /\ frames' = [frames EXCEPT ![Len(frames)].parentElement.InnerHTML =
                      SubSeq(body, TopFrame.parse_start + 1, cursor)]
    /\ err' = IF Len(frames) > 1 THEN <<"unclosed element">> ELSE NoError
    /\ pc' = "return"
    /\ UNCHANGED <<doc, body, strict, cursor, read_tag, out, tagVars, scrVars, stkVars, treeVars>>

\* loop head with the input exhausted: InnerHTML and return nil
LevelEnd ==
    /\ pc = "loop"
    /\ cursor >= Len(body)
    /\ frames' = [frames EXCEPT ![Len(frames)].parentElement.InnerHTML =
                      SubSeq(body, TopFrame.parse_start + 1, cursor)]
    /\ err' = NoError
    /\ pc' = "return"
    /\ UNCHANGED <<doc, body, strict, cursor, read_tag, out, tagVars, scrVars, stkVars, treeVars>>

\* a recursive call returns and its element is added only when it returned
\* no error (against which the tree returned with an error is compared)
ReturnToParentDiscard ==
    /\ pc = "return"
    /\ Len(frames) > 1
    /\ frames' = IF err # NoError THEN SubSeq(frames, 1, Len(frames) - 1)
                 ELSE [SubSeq(frames, 1, Len(frames) - 1) EXCEPT
           ![Len(frames) - 1].parentElement = AddChild(@, TopFrame.parentElement)]
    /\ pc' = IF err # NoError THEN "return" ELSE "loop"
    /\ UNCHANGED <<doc, body, strict, cursor, read_tag, err, out, tagVars, scrVars, stkVars, treeVars>>

\* a recursive call returns and its error is not looked at: the loop of the
\* caller goes on (against which the propagation of errors is compared)
ReturnToParentResume ==
    /\ pc = "return"
    /\ Len(frames) > 1
    /\ frames' = [SubSeq(frames, 1, Len(frames) - 1) EXCEPT
           ![Len(frames) - 1].parentElement = AddChild(@, TopFrame.parentElement)]
    /\ pc' = "loop"
    /\ UNCHANGED <<doc, body, strict, cursor, read_tag, err, out, tagVars, scrVars, stkVars, treeVars>>

\* a recursive call returns: parentElement.AddChild(read_tag), then the
\* error, if any, is returned further
ReturnToParent ==
    /\ pc = "return"
    /\ Len(frames) > 1
    /\ frames' = [SubSeq(frames, 1, Len(frames) - 1) EXCEPT
           ![Len(frames) - 1].parentElement = AddChild(@, TopFrame.parentElement)]
    /\ pc' = IF err # NoError THEN "return" ELSE "loop"
    /\ UNCHANGED <<doc, body, strict, cursor, read_tag, err, out, tagVars, scrVars, stkVars, treeVars>>

\* the first call returns: the entry point returns parentElement, childrenError
ReturnToCaller ==
    /\ pc = "return"
    /\ Len(frames) = 1
    /\ out' = [out EXCEPT ![strict] =
                   [returned |-> TRUE, root |-> frames[1].parentElement,
                    err |-> err]]
    /\ frames' = <<>>
    /\ err' = NoError
    /\ pc' = "idle"
    /\ UNCHANGED <<doc, body, strict, cursor, read_tag, tagVars, scrVars, stkVars, treeVars>>

-----------------------------------------------------------------------------
(* Inputs.  A document is written as a sequence of pieces; the code gets the
   characters of the pieces one after the other.  A piece records what it
   was written as: its kind, the name and the attributes meant, its text. *)

Piece(kind, name, attrs, text) ==
    [kind |-> kind, name |-> name, attrs |-> attrs, text |-> text]

RECURSIVE Flatten(_)
Flatten(d) == IF d = <<>> THEN <<>> ELSE Head(d).text \o Flatten(Tail(d))

SeqsUpTo(S, n) == UNION {[1..k -> S] : k \in 0..n}

OpenA == Piece("open", <<"a">>, <<>>, <<"<","a",">">>)
CloseA == Piece("close", <<"a">>, <<>>, <<"<","/","a",">">>)
CloseB == Piece("close", <<"b">>, <<>>, <<"<","/","b",">">>)
VoidBr == Piece("void", <<"b","r">>, <<>>, <<"<","b","r",">">>)
TextX == Piece("text", <<>>, <<>>, <<"x">>)
Space == Piece("ws", <<>>, <<>>, <<" ">>)
OpenScript == Piece("junk", <<>>, <<>>, <<"<","s","c","r","i","p","t",">">>)

ParsePieces == {OpenA, CloseA, CloseB, VoidBr, TextX, Space, OpenScript}

MaxPieces == 3

\* SNIPPET of html_test.go
SNIPPET ==
    <<Piece("open", <<"d","i","v">>, MapPut(<<>>, <<"i","d">>, <<"f","i","r","s","t">>), <<"<","d","i","v"," ","i","d","=","\"","f","i","r","s","t","\"",">">>),
       Piece("void", <<"b","r">>, <<>>, <<"<","b","r",">">>),
       Piece("open", <<"p">>, <<>>, <<"<","p",">">>),
       Piece("open", <<"h","1">>, <<>>, <<"<","h","1",">">>),
       Piece("text", <<>>, <<>>, <<"T","e","s","t","!">>),
       Piece("close", <<"h","1">>, <<>>, <<"<","/","h","1",">">>),
       Piece("close", <<"p">>, <<>>, <<"<","/","p",">">>),
       Piece("close", <<"d","i","v">>, <<>>, <<"<","/","d","i","v",">">>),
       Piece("open", <<"d","i","v">>, MapPut(<<>>, <<"i","d">>, <<"s","e","c","o","n","d">>), <<"<","d","i","v"," ","i","d","=","\"","s","e","c","o","n","d","\"",">">>),
       Piece("open", <<"h","2">>, <<>>, <<"<","h","2",">">>),
       Piece("text", <<>>, <<>>, <<"T","e","s","t"," ","2","!">>),
       Piece("close", <<"h","2">>, <<>>, <<"<","/","h","2",">">>),
       Piece("close", <<"d","i","v">>, <<>>, <<"<","/","d","i","v",">">>)>>

\* SNIPPET_INVALID of html_test.go
SNIPPET_INVALID ==
    <<Piece("open", <<"d","i","v">>, MapPut(<<>>, <<"i","d">>, <<"f","i","r","s","t">>), <<"<","d","i","v"," ","i","d","=","\"","f","i","r","s","t","\"",">">>),
       Piece("void", <<"b","r">>, <<>>, <<"<","b","r",">">>),
       Piece("open", <<"p">>, <<>>, <<"<","p",">">>),
       Piece("open", <<"h","1">>, <<>>, <<"<","h","1",">">>),
       Piece("text", <<>>, <<>>, <<"T","e","s","t","!">>),
       Piece("close", <<"p">>, <<>>, <<"<","/","p",">">>),
       Piece("close", <<"h","1">>, <<>>, <<"<","/","h","1",">">>),
       Piece("close", <<"d","i","v">>, <<>>, <<"<","/","d","i","v",">">>),
       Piece("open", <<"d","i","v">>, MapPut(<<>>, <<"i","d">>, <<"s","e","c","o","n","d">>), <<"<","d","i","v"," ","i","d","=","\"","s","e","c","o","n","d","\"",">">>),
       Piece("open", <<"h","2">>, <<>>, <<"<","h","2",">">>),
       Piece("text", <<>>, <<>>, <<"T","e","s","t"," ","2","!">>),
       Piece("close", <<"h","2">>, <<>>, <<"<","/","h","2",">">>),
       Piece("close", <<"d","i","v">>, <<>>, <<"<","/","d","i","v",">">>)>>

\* an unquoted attribute value, then a second element
UNQUOTED_DOC ==
    <<Piece("open", <<"a">>, MapPut(<<>>, <<"k">>, <<"v">>), <<"<","a"," ","k","=","v",">">>),
       Piece("close", <<"a">>, <<>>, <<"<","/","a",">">>),
       Piece("ws", <<>>, <<>>, <<" ">>),
       Piece("open", <<"b">>, <<>>, <<"<","b",">">>),
       Piece("close", <<"b">>, <<>>, <<"<","/","b",">">>)>>

\* a script whose body holds a string literal with a close tag in it
SCRIPT_DOC ==
    <<Piece("open", <<"a">>, <<>>, <<"<","a",">">>),
       Piece("leaf", <<"s","c","r","i","p","t">>, <<>>, <<"<","s","c","r","i","p","t",">","a","<","'","<","/","s","c","r","i","p","t",">","'","<","/","s","c","r","i","p","t",">">>),
       Piece("close", <<"a">>, <<>>, <<"<","/","a",">">>)>>

\* whitespace between tags and around text
WHITESPACE_DOC ==
    <<Piece("open", <<"a">>, <<>>, <<"<","a",">">>),
       Piece("ws", <<>>, <<>>, <<"\n"," ">>),
       Piece("open", <<"b">>, <<>>, <<"<","b",">">>),
       Piece("text", <<>>, <<>>, <<" ","x","\t">>),
       Piece("close", <<"b">>, <<>>, <<"<","/","b",">">>),
       Piece("ws", <<>>, <<>>, <<"\r","\n">>),
       Piece("close", <<"a">>, <<>>, <<"<","/","a",">">>)>>

\* a close tag that matches nothing, on the third line
MISMATCH_LINE_DOC ==
    <<Piece("open", <<"a">>, <<>>, <<"<","a",">">>),
       Piece("ws", <<>>, <<>>, <<"\n">>),
       Piece("open", <<"b">>, <<>>, <<"<","b",">">>),
       Piece("ws", <<>>, <<>>, <<"\n">>),
       Piece("close", <<"a">>, <<>>, <<"<","/","a",">">>),
       Piece("close", <<"b">>, <<>>, <<"<","/","b",">">>)>>

Corpus == {SNIPPET, SNIPPET_INVALID, UNQUOTED_DOC, SCRIPT_DOC, WHITESPACE_DOC,
           MISMATCH_LINE_DOC}

\* tags the tokenizer rejects: <>, < >, </> and <!-X with X other than "-"
EmptyTag == Piece("empty", <<>>, <<>>, <<"<",">">>)
EmptyTagSpace == Piece("empty", <<>>, <<>>, <<"<"," ",">">>)
EmptyTagSlash == Piece("empty", <<>>, <<>>, <<"<","/",">">>)
AlmostCommentX == Piece("almost", <<>>, <<>>, <<"<","!","-","x">>)
AlmostCommentGt == Piece("almost", <<>>, <<>>, <<"<","!","-",">">>)
AlmostCommentSpace == Piece("almost", <<>>, <<>>, <<"<","!","-"," ">>)

ErrorPieces == {EmptyTag, EmptyTagSpace, EmptyTagSlash,
                AlmostCommentX, AlmostCommentGt, AlmostCommentSpace}

\* a rejected tag at the top level and one and two levels down, at the end
\* of the input and before more input
ErrorDocs ==
    {p \o <<e>> \o q :
        p \in {<<>>, <<TextX>>, <<OpenA>>, <<OpenA, OpenA>>},
        e \in ErrorPieces,
        q \in {<<>>, <<TextX>>, <<CloseA>>}}

\* the close tag of a void name
CloseBr == Piece("close", <<"b","r">>, <<>>, <<"<","/","b","r",">">>)

\* </br> at the top level and inside containers, after <br> or not, at the
\* end of the input and before more input
VoidCloseDocs ==
    {p \o <<CloseBr>> \o q :
        p \in {<<>>, <<OpenA>>, <<OpenA, VoidBr>>, <<OpenA, OpenA>>},
        q \in {<<>>, <<TextX>>, <<CloseA>>, <<TextX, CloseA>>}}

\* a script with no body
ScriptEmpty ==
    Piece("leaf", ELEMENT_SCRIPT, <<>>,
          <<"<","s","c","r","i","p","t",">","<","/","s","c","r","i","p","t",">">>)

\* a script whose body is whitespace
ScriptSpace ==
    Piece("leaf", ELEMENT_SCRIPT, <<>>,
          <<"<","s","c","r","i","p","t",">"," ","<","/","s","c","r","i","p","t",">">>)

\* a script with a one-character body
ScriptX ==
    Piece("leaf", ELEMENT_SCRIPT, <<>>,
          <<"<","s","c","r","i","p","t",">","x","<","/","s","c","r","i","p","t",">">>)

\* a script written in upper case
ScriptUpper ==
    Piece("leaf", ELEMENT_SCRIPT, <<>>,
          <<"<","S","C","R","I","P","T",">","x","<","/","S","C","R","I","P","T",">">>)

\* a script whose body is a string literal with a close tag in it
ScriptLiteral ==
    Piece("leaf", ELEMENT_SCRIPT, <<>>,
          <<"<","s","c","r","i","p","t",">","'","<","/","s","c","r","i","p","t",">","'","<","/","s","c","r","i","p","t",">">>)

\* a script whose body holds a < that starts no tag
ScriptLess ==
    Piece("leaf", ELEMENT_SCRIPT, <<>>,
          <<"<","s","c","r","i","p","t",">","a","<","b","<","/","s","c","r","i","p","t",">">>)

ScriptTags == {ScriptEmpty, ScriptSpace, ScriptX, ScriptUpper, ScriptLiteral,
                 ScriptLess}

\* a script at the top level and inside a container, at the end of the input
\* and before more input
ScriptTagDocs ==
    {p \o <<sc>> \o q :
        p \in {<<>>, <<OpenA>>},
        sc \in ScriptTags,
        q \in {<<>>, <<TextX>>, <<CloseA>>}}

Docs == SeqsUpTo(ParsePieces, MaxPieces) \cup Corpus \cup ErrorDocs
            \cup VoidCloseDocs \cup ScriptTagDocs

IdleTag == TagInit(0)
IdleScript == ScriptInit(0)

\* the call op made on the stack s, with the element arg if it takes one,
\* and what it returned: an element (or nil), a string or a stack
Returned(op, s, arg, elem, text, stack) ==
    [op |-> op, on |-> s, arg |-> arg,
     elem |-> elem, text |-> text, stack |-> stack]

\* stack := &elementStack{}: one empty stack, no node
StackIdle ==
    /\ heap = <<>>
    /\ stacks = <<NewStackValue>>
    /\ ret = Returned("new", 1, Nil, Nil, <<>>, 0)

\* no Element in memory, no call, nothing returned
TreeIdle ==
    /\ cells = <<>>
    /\ calls = <<>>
    /\ root_at = NilNode

ParseIdle ==
    /\ strict = FALSE
    /\ cursor = 0
    /\ frames = <<>>
    /\ pc = "idle"
    /\ read_tag = Nil
    /\ err = NoError
    /\ out = [m \in BOOLEAN |-> NotReturned]

Init ==
    /\ doc \in Docs
    /\ body = Flatten(doc)
    /\ ParseIdle
    /\ StackIdle
    /\ TreeIdle
    /\ tag_text = <<>> /\ tag = IdleTag
    /\ scr_text = <<>> /\ scr_type = TEXT_JAVASCRIPT /\ scr = IdleScript

Next ==
    \/ Parse
    \/ ParseStrict
    \/ ScanText
    \/ Tokenize
    \/ CloseTag
    \/ VoidTag
    \/ ScriptTag
    \/ Descend
    \/ LevelEnd
    \/ ReturnToParent
    \/ ReturnToCaller

Spec == Init /\ [][Next]_vars

\* the return statements of parseChildren and of the entry points: a return
\* that can be made is made
Unwind == ReturnToParent \/ ReturnToCaller

LiveSpec == Init /\ [][Next]_vars /\ WF_vars(Unwind)

-----------------------------------------------------------------------------
(* readTag on its own: the call readTag(tag_text, &cursor) with cursor = 0,
   one loop iteration per step *)

TagLoop ==
    /\ ~tag.done
    /\ tag.cursor < Len(tag_text)
    /\ tag' = TagStep(tag_text, tag)
    /\ UNCHANGED <<doc, tag_text, parseVars, scrVars, stkVars, treeVars>>

TagEnd ==
    /\ ~tag.done
    /\ tag.cursor >= Len(tag_text)
    /\ tag' = TagEof(tag)
    /\ UNCHANGED <<doc, tag_text, parseVars, scrVars, stkVars, treeVars>>

Lt == Piece("lt", <<>>, <<>>, <<"<">>)
Gt == Piece("gt", <<>>, <<>>, <<">">>)
Slash == Piece("slash", <<>>, <<>>, <<"/">>)
NameA == Piece("name", <<"a">>, <<>>, <<"a">>)
NameBR == Piece("voidname", <<"b","r">>, <<>>, <<"B","R">>)
NameXY == Piece("name", <<"x","-","y">>, <<>>, <<"x","-","y">>)
AttrKV == Piece("attr", <<"k">>, <<"v">>, <<" ","k","=","\"","v","\"">>)
AttrID == Piece("attr", <<"i","d">>, <<"a"," ","b">>,
                <<" ","i","d","=","\"","a"," ","b","\"">>)
SelfClose == Piece("selfclose", <<>>, <<>>, <<" ","/",">">>)

TagPieces == {Gt, Slash, SelfClose, NameA, NameBR, NameXY, AttrKV, AttrID, TextX}

MaxTagPieces == 4

TagDocs == {<<Lt>> \o d : d \in SeqsUpTo(TagPieces, MaxTagPieces)}

\* the parts of a comment
CommentOpen == Piece("comment", <<>>, <<>>, <<"<","!","-","-">>)
CommentClose == Piece("comment", <<>>, <<>>, <<"-","-",">">>)
Dash == Piece("comment", <<>>, <<>>, <<"-">>)
Blank == Piece("comment", <<>>, <<>>, <<" ">>)

\* <!--BODY--> for the bodies of up to three of a, a blank, - and >, alone
\* and followed by a character
CommentDocs ==
    {<<CommentOpen>> \o b \o <<CommentClose>> \o rest :
        b \in SeqsUpTo({NameA, Blank, Dash, Gt}, 3), rest \in {<<>>, <<TextX>>}}

\* the attribute K written with the value between two quotes q
AttrQuoted(q, value) ==
    Piece("attr", <<"k">>, value, <<" ","K","=",q>> \o value \o <<q>>)

\* values of up to two characters: a letter, whitespace, =, / and >, and the
\* quote other than q
QuotedValues(q) ==
    SeqsUpTo({"V", " ", "=", "/", ">"} \cup ({quote_single, quote_double} \ {q}), 2)

\* a tag with one quoted attribute, ended by >, by /> and by another
\* attribute
QuotedDocs ==
    UNION {{<<Lt, NameA, AttrQuoted(q, v)>> \o rest :
               v \in QuotedValues(q),
               rest \in {<<Gt>>, <<SelfClose>>, <<AttrID, Gt>>}} :
           q \in {quote_single, quote_double}}

\* the attribute K written with a value without quotes
AttrUnquoted(value) == Piece("attr", <<"k">>, value, <<" ","K","=">> \o value)

\* values of one to three characters, the first one not a quote
UnquotedValues ==
    {<<"a",">","b">>} \cup
    {<<c>> \o rest :
        c \in {"V", "=", "/", ">"},
        rest \in SeqsUpTo({"V", "=", "/", ">", quote_double}, 1)}

\* a tag with one unquoted attribute, its value followed by a blank, ended
\* by > and by />
UnquotedDocs ==
    {<<Lt, NameA, AttrUnquoted(v), Blank>> \o rest :
        v \in UnquotedValues, rest \in {<<Gt>>, <<Slash, Gt>>, <<Gt, TextX>>}}

\* attributes without a value, and one with upper-case letters in its name
\* and in its value
BoolK == Piece("attr", <<"k">>, <<>>, <<" ","K">>)
BoolID == Piece("attr", <<"i","d">>, <<>>, <<" ","i","D">>)
AttrKW == Piece("attr", <<"k">>, <<"W","w">>, <<" ","K","=","\"","W","w","\"">>)

MaxAttrs == 3

\* a tag with up to MaxAttrs attributes, ended directly after the last one
\* by > or by />, or after a blank
AttrDocs ==
    {<<Lt, NameA>> \o as \o rest :
        as \in SeqsUpTo({BoolK, BoolID, AttrKV, AttrKW}, MaxAttrs),
        rest \in {<<Gt>>, <<Slash, Gt>>, <<Blank, Gt>>, <<SelfClose>>}}

\* the pieces of a declaration
Bang == Piece("bang", <<>>, <<>>, <<"!">>)
Doctype == Piece("voidname", <<"d","o","c","t","y","p","e">>, <<>>,
                 <<"D","O","C","T","Y","P","E">>)
BoolHTML == Piece("attr", <<"h","t","m","l">>, <<>>, <<" ","h","t","m","l">>)
DashDash == Piece("comment", <<>>, <<>>, <<"-","-">>)

MaxDeclPieces == 3

\* <! followed by up to MaxDeclPieces pieces, the first of them not a -
DeclDocs ==
    {<<Lt, Bang>> \o d :
        d \in {e \in SeqsUpTo({Bang, Doctype, BoolHTML, NameA, Slash, Gt,
                                DashDash, CommentClose}, MaxDeclPieces) :
                  e = <<>> \/ e[1] \notin {DashDash, CommentClose}}}

InitTag ==
    /\ doc \in TagDocs \cup CommentDocs \cup QuotedDocs \cup UnquotedDocs
                \cup AttrDocs \cup DeclDocs
    /\ tag_text = Flatten(doc)
    /\ tag = TagInit(0)
    /\ body = <<>>
    /\ ParseIdle
    /\ StackIdle
    /\ TreeIdle
    /\ scr_text = <<>> /\ scr_type = TEXT_JAVASCRIPT /\ scr = IdleScript

NextTag == TagLoop \/ TagEnd

SpecTag == InitTag /\ [][NextTag]_vars

-----------------------------------------------------------------------------
(* readUntilScriptTagClose on its own: the call
   readUntilScriptTagClose(scr_text, &cursor, scr_type) with cursor = 0, one
   loop iteration per step *)

ScriptLoop ==
    /\ ~scr.done
    /\ scr.cursor < Len(scr_text)
    /\ scr' = ScriptStep(scr_text, scr, scr_type)
    /\ UNCHANGED <<doc, scr_text, scr_type, parseVars, tagVars, stkVars, treeVars>>

ScriptEnd ==
    /\ ~scr.done
    /\ scr.cursor >= Len(scr_text)
    /\ scr' = ScriptEof(scr_text, scr)
    /\ UNCHANGED <<doc, scr_text, scr_type, parseVars, tagVars, stkVars, treeVars>>

CodeA == Piece("code", <<>>, <<>>, <<"a">>)
CodeLt == Piece("code", <<>>, <<>>, <<"<">>)
CodeSlash == Piece("code", <<>>, <<>>, <<"/">>)
CodeStar == Piece("code", <<>>, <<>>, <<"*">>)
CodeQuote == Piece("code", <<>>, <<>>, <<"'">>)
CodeDQuote == Piece("code", <<>>, <<>>, <<"\"">>)
CodeNewline == Piece("code", <<>>, <<>>, <<"\n">>)
CloseScript == Piece("close", <<"s","c","r","i","p","t">>, <<>>,
                     <<"<","/","s","c","r","i","p","t",">">>)

ScriptPieces == {CodeA, CodeLt, CodeSlash, CodeStar, CodeQuote, CodeDQuote,
                 CodeNewline, CloseScript}

MaxScriptPieces == 4

ScriptDocs == SeqsUpTo(ScriptPieces, MaxScriptPieces)

\* the body /* a*b/c </script> */</script>
BLOCK_COMMENT_DOC ==
    <<Piece("code", <<>>, <<>>, <<"/","*"," ","a","*","b","/","c"," ">>),
      CloseScript,
      Piece("code", <<>>, <<>>, <<" ","*","/">>),
      CloseScript>>

\* a block comment that holds up to three of the characters a, * and / and
\* then a close tag, closed after it and followed by the close tag of the
\* script
BlockCommentDocs ==
    {<<CodeSlash, CodeStar>> \o mid \o <<CloseScript, CodeStar, CodeSlash, CloseScript>> :
        mid \in SeqsUpTo({CodeA, CodeStar, CodeSlash}, 3)}

ScriptBodies == ScriptDocs \cup BlockCommentDocs \cup {BLOCK_COMMENT_DOC}

TEXT_TEMPLATE == <<"t","e","x","t","/","x">>

InitScript ==
    /\ doc \in ScriptBodies
    /\ scr_text = Flatten(doc)
    /\ scr_type \in {TEXT_JAVASCRIPT, TEXT_TEMPLATE}
    /\ scr = ScriptInit(0)
    /\ body = <<>>
    /\ ParseIdle
    /\ StackIdle
    /\ TreeIdle
    /\ tag_text = <<>> /\ tag = IdleTag

NextScript == ScriptLoop \/ ScriptEnd

SpecScript == InitScript /\ [][NextScript]_vars

-----------------------------------------------------------------------------
(* elementStack on its own: calls of its methods on the stacks allocated, as
   in TestElementStack *)

\* the nodes allocated by the calls of Push, those of Duplicate included
MaxNodes == 4

\* elements TestElementStack pushes
STACK_BR == [ZeroElement EXCEPT !.ElementName = <<"b","r">>, !.IsVoid = TRUE]
STACK_DIV_SECOND ==
    [ZeroElement EXCEPT !.ElementName = <<"d","i","v">>,
        !.Attributes = MapPut(<<>>, <<"c","l","a","s","s">>, <<"s","e","c","o","n","d">>)]

StackElements == {STACK_BR, STACK_DIV_SECOND}

StackPush(s, e) ==
    /\ Len(heap) < MaxNodes
    /\ LET r == PushNode(heap, stacks[s], e) IN
        /\ heap' = r.heap
        /\ stacks' = [stacks EXCEPT ![s] = r.es]
    /\ ret' = Returned("Push", s, e, Nil, <<>>, 0)
    /\ UNCHANGED <<doc, parseVars, tagVars, scrVars, treeVars>>

\* Pop without the check for an empty stack before Count is changed
\* (against which the Count of an empty stack is compared)
StackPopUnchecked(s) ==
    /\ IF stacks[s].Top = NilNode
       THEN /\ ret' = Returned("Pop", s, Nil, Nil, <<>>, 0)
            /\ stacks' = [stacks EXCEPT ![s].Count = @ - 1]
       ELSE /\ ret' = Returned("Pop", s, Nil, heap[stacks[s].Top].Value, <<>>, 0)
            /\ stacks' = [stacks EXCEPT ![s] =
                   [Top |-> heap[stacks[s].Top].Next, Count |-> @.Count - 1]]
    /\ UNCHANGED <<heap, doc, parseVars, tagVars, scrVars, treeVars>>

StackPop(s) ==
    /\ IF stacks[s].Top = NilNode
       THEN /\ ret' = Returned("Pop", s, Nil, Nil, <<>>, 0)
            /\ UNCHANGED stacks
       ELSE /\ ret' = Returned("Pop", s, Nil, heap[stacks[s].Top].Value, <<>>, 0)
            /\ stacks' = [stacks EXCEPT ![s] =
                   [Top |-> heap[stacks[s].Top].Next, Count |-> @.Count - 1]]
    /\ UNCHANGED <<heap, doc, parseVars, tagVars, scrVars, treeVars>>

StackPeek(s) ==
    /\ ret' = Returned("Peek", s, Nil,
                       IF stacks[s].Top = NilNode THEN Nil
                       ELSE heap[stacks[s].Top].Value, <<>>, 0)
    /\ UNCHANGED <<heap, stacks, doc, parseVars, tagVars, scrVars, treeVars>>

StackToString(s) ==
    /\ ret' = Returned("ToString", s, Nil, Nil, ToStringNodes(heap, stacks[s]), 0)
    /\ UNCHANGED <<heap, stacks, doc, parseVars, tagVars, scrVars, treeVars>>

\* duplicated := stack.Duplicate(), called once as in the test
StackDuplicate(s) ==
    /\ Len(stacks) = 1
    /\ Len(heap) + stacks[s].Count <= MaxNodes
    /\ LET r == DuplicateNodes(heap, stacks[s]) IN
        /\ heap' = r.heap
        /\ stacks' = Append(stacks, r.es)
    /\ ret' = Returned("Duplicate", s, Nil, Nil, <<>>, Len(stacks) + 1)
    /\ UNCHANGED <<doc, parseVars, tagVars, scrVars, treeVars>>

InitStack ==
    /\ doc = <<>>
    /\ body = <<>>
    /\ ParseIdle
    /\ tag_text = <<>> /\ tag = IdleTag
    /\ scr_text = <<>> /\ scr_type = TEXT_JAVASCRIPT /\ scr = IdleScript
    /\ StackIdle
    /\ TreeIdle

NextStack ==
    \E s \in 1..Len(stacks) :
        \/ \E e \in StackElements : StackPush(s, e)
        \/ StackPop(s)
        \/ StackPeek(s)
        \/ StackToString(s)
        \/ StackDuplicate(s)

SpecStack == InitStack /\ [][NextStack]_vars

-----------------------------------------------------------------------------
(* AddChild with its pointers: the Element values in memory, an address being
   the index of a cell and 0 the nil pointer.  A cell holds the name of the
   Element, its Parent (an address) and its Children: the addresses of the
   cells of the slice, each cell holding an Element value.  The calls are
   those parseChildren makes, for the tags readTag returns in any order. *)

\* the Element values in memory, the returned one included
MaxCells == 9

Cell(name, isRoot) ==
    [ElementName |-> name, Parent |-> NilNode, Children |-> <<>>,
     IsRoot |-> isRoot]

\* e.AddChild(newChild) for the pointers e and newChild: Parent is set in
\* *newChild, then *newChild is copied into a new cell of e.Children
AddChildNode(m, e, newChild) ==
    LET set == [m EXCEPT ![newChild].Parent = e]
    IN [Append(set, set[newChild]) EXCEPT ![e].Children = Append(@, Len(m) + 1)]

\* names of the leaves (a void tag, a text node) and of the containers
TreeLeafNames == {<<"b","r">>, ELEMENT_INTERNAL_TEXT}
TreeContainerNames == {<<"a">>}

\* parentElement.AddChild(new_text_node), parentElement.AddChild(read_tag)
\* for a void tag: the node is allocated, then added
TreeLeaf(name) ==
    /\ calls # <<>>
    /\ Len(cells) + 2 < MaxCells
    /\ cells' = AddChildNode(Append(cells, Cell(name, FALSE)),
                             calls[Len(calls)], Len(cells) + 1)
    /\ UNCHANGED <<calls, root_at, doc, parseVars, tagVars, scrVars, stkVars>>

\* the recursive call parseChildren(read_tag, ...) for the tag readTag
\* allocated
TreeDescend(name) ==
    /\ calls # <<>>
    /\ Len(cells) + 2 < MaxCells
    /\ cells' = Append(cells, Cell(name, FALSE))
    /\ calls' = Append(calls, Len(cells) + 1)
    /\ UNCHANGED <<root_at, doc, parseVars, tagVars, scrVars, stkVars>>

\* the recursive call returns: parentElement.AddChild(read_tag)
TreeReturn ==
    /\ Len(calls) > 1
    /\ cells' = AddChildNode(cells, calls[Len(calls) - 1], calls[Len(calls)])
    /\ calls' = SubSeq(calls, 1, Len(calls) - 1)
    /\ UNCHANGED <<root_at, doc, parseVars, tagVars, scrVars, stkVars>>

\* return parentElement, childrenError: the caller gets a copy of the value
TreeResult ==
    /\ Len(calls) = 1
    /\ cells' = Append(cells, cells[calls[1]])
    /\ root_at' = Len(cells) + 1
    /\ calls' = <<>>
    /\ UNCHANGED <<doc, parseVars, tagVars, scrVars, stkVars>>

\* parentElement := Element{IsRoot: true} and the first call of parseChildren
InitTree ==
    /\ doc = <<>>
    /\ body = <<>>
    /\ ParseIdle
    /\ tag_text = <<>> /\ tag = IdleTag
    /\ scr_text = <<>> /\ scr_type = TEXT_JAVASCRIPT /\ scr = IdleScript
    /\ StackIdle
    /\ cells = <<Cell(EMPTY, TRUE)>>
    /\ calls = <<1>>
    /\ root_at = NilNode

NextTree ==
    \/ \E name \in TreeLeafNames : TreeLeaf(name)
    \/ \E name \in TreeContainerNames : TreeDescend(name)
    \/ TreeReturn
    \/ TreeResult

SpecTree == InitTree /\ [][NextTree]_vars

-----------------------------------------------------------------------------
(* What the documents mean, read off their pieces (not off the code) *)

\* part occurs in msg as a run of consecutive entries
Contains(msg, part) ==
    \E i \in 0..(Len(msg) - Len(part)) : SubSeq(msg, i + 1, i + Len(part)) = part

RECURSIVE WellNested(_, _)
\* every open piece has its close piece, properly nested; open is the
\* sequence of the names still open, innermost first
WellNested(d, open) ==
    IF d = <<>> THEN open = <<>>
    ELSE LET p == Head(d) IN
         CASE p.kind = "open" -> WellNested(Tail(d), <<p.name>> \o open)
           [] p.kind = "close" ->
                  /\ open # <<>>
                  /\ Head(open) = p.name
                  /\ WellNested(Tail(d), Tail(open))
           [] p.kind \in {"void", "text", "ws", "leaf"} -> WellNested(Tail(d), open)
           [] OTHER -> FALSE

WellFormed(d) == WellNested(d, <<>>)

\* a node of the tree a document stands for
Node(name, attrs, text, leaf) ==
    [name |-> name, attrs |-> attrs, text |-> text, leaf |-> leaf, children |-> <<>>]

\* the text leaf is one leaf per run of text: a text piece that follows a
\* text piece extends its leaf
WithText(n, text) ==
    IF n.children # <<>> /\ n.children[Len(n.children)].text # <<>>
    THEN [n EXCEPT !.children[Len(n.children)].text = @ \o text]
    ELSE [n EXCEPT !.children = Append(@, Node(<<>>, <<>>, text, TRUE))]

RECURSIVE Nesting(_, _)
\* the tree of a properly nested document of open, close, void and text
\* pieces; st holds the nodes still open, innermost last
Nesting(d, st) ==
    IF d = <<>> THEN st[1].children
    ELSE LET p == Head(d)
             n == Len(st)
         IN CASE p.kind = "open" ->
                     Nesting(Tail(d), Append(st, Node(p.name, p.attrs, <<>>, FALSE)))
              [] p.kind = "close" ->
                     Nesting(Tail(d),
                         [SubSeq(st, 1, n - 1) EXCEPT
                             ![n - 1].children = Append(@, st[n])])
              [] p.kind = "void" ->
                     Nesting(Tail(d),
                         [st EXCEPT ![n].children =
                             Append(@, Node(p.name, p.attrs, <<>>, TRUE))])
              [] OTHER -> Nesting(Tail(d), [st EXCEPT ![n] = WithText(@, p.text)])

RECURSIVE Shape(_)
\* what a parsed element is as a node: its name (a text leaf has its text
\* instead), its attributes, whether it is a leaf, its children
Shape(e) ==
    [name |-> IF e.IsText THEN <<>> ELSE e.ElementName,
     attrs |-> e.Attributes,
     text |-> IF e.IsText THEN e.InnerHTML ELSE <<>>,
     leaf |-> e.IsVoid,
     children |-> [i \in 1..Len(e.Children) |-> Shape(e.Children[i])]]

\* a properly nested document of container tags, void tags without a slash
\* and text that is not whitespace
NestedMarkup(d) ==
    /\ \A i \in 1..Len(d) : d[i].kind \in {"open", "close", "void", "text"}
    /\ WellFormed(d)

-----------------------------------------------------------------------------
(* Parse and ParseStrict: close tags *)

TagShapeErrors == {ERR_EMPTY_TAG, ERR_ALMOST_COMMENT}

\* C1: Parse (lenient mode) never aborts on a close-tag mismatch: at every
\* nesting depth, the top level with its empty stack included, the close tag
\* is dropped, no crash is reachable, and Parse returns a nil error unless
\* the input holds a tag-shape error.
C1_LenientNeverAborts ==
    /\ (~strict => pc # "panic")
    /\ (out[FALSE].returned /\ out[FALSE].err # NoError
            => out[FALSE].err \in TagShapeErrors)

\* the close tag in read_tag does not match the top of the stack of the
\* active level (an empty stack has no name to match)
Mismatch ==
    /\ pc = "dispatch"
    /\ read_tag.IsClose
    /\ \/ TopFrame.tagStack.Top = <<>>
       \/ Head(TopFrame.tagStack.Top).ElementName # read_tag.ElementName

\* C2: in strict mode the step taken at a close tag that does not match the
\* top of the stack, at any depth and at the top level, returns an error
\* whose message holds the unexpected name, the expected name (when the
\* stack has one) and the ancestor path ToString renders.
C2_StrictStep ==
    (strict /\ Mismatch) =>
        /\ pc' = "return"
        /\ err' # NoError
        /\ Contains(err', <<"unexpected close </">> \o read_tag.ElementName
                            \o <<"> (expected </">>)
        /\ TopFrame.tagStack.Top # <<>> =>
               Contains(err', <<"> (expected </">>
                   \o Head(TopFrame.tagStack.Top).ElementName \o <<">) on line: ">>)
        /\ Contains(err', <<"\ncurrent path: ">> \o
               (IF TopFrame.tagStack.Top = <<>> THEN <<"*">>
                ELSE JoinNames([i \in 1..Len(TopFrame.tagStack.Top) |->
                         TopFrame.tagStack.Top[Len(TopFrame.tagStack.Top) + 1 - i]
                             .ElementName])))

C2_StrictMismatchError == [][C2_StrictStep]_vars

\* C3: for a well-formed document Parse and ParseStrict return the same
\* result: neither crashes, both return a nil error, and the two trees are
\* equal node for node.
C3_SameResult ==
    WellFormed(doc) =>
        /\ pc # "panic"
        /\ \A m \in BOOLEAN : out[m].returned => out[m].err = NoError
        /\ (out[TRUE].returned /\ out[FALSE].returned)
               => out[TRUE].root = out[FALSE].root

\* C4: for a properly nested document of container tags, void tags without
\* a slash and non-whitespace text, the tree Parse returns mirrors the
\* nesting: the children of the root and of every container are exactly the
\* leaves and containers written directly inside it, in document order.
C4_TreeMirrorsNesting ==
    (NestedMarkup(doc) /\ out[FALSE].returned) =>
        /\ out[FALSE].err = NoError
        /\ Shape(out[FALSE].root).children = Nesting(doc, <<Node(<<>>, <<>>, <<>>, FALSE)>>)

-----------------------------------------------------------------------------
(* The script body as JavaScript reads it (not as the code scans it) *)

CLOSE_SCRIPT == <<"<","/","s","c","r","i","p","t",">">>

\* the characters at index i (0-based) and after spell the close tag
ClosesAt(text, i) ==
    /\ i + Len(CLOSE_SCRIPT) <= Len(text)
    /\ SubSeq(text, i + 1, i + Len(CLOSE_SCRIPT)) = CLOSE_SCRIPT

\* text[i], text[i+1] are the two characters a, b
TwoAt(text, i, a, b) ==
    /\ i + 2 <= Len(text)
    /\ text[i + 1] = a
    /\ text[i + 2] = b

RECURSIVE TrueClose(_, _, _)
\* the index of the "<" of the first close tag outside every string literal
\* and comment, from index i on in lexical mode m, or -1: m is "code", "line"
\* (a // comment), "block" (a /* comment) or the quote that opened the literal
TrueClose(text, i, m) ==
    IF i >= Len(text) THEN -1
    ELSE LET c == text[i + 1] IN
        CASE m = "code" ->
                 IF ClosesAt(text, i) THEN i
                 ELSE IF TwoAt(text, i, "/", "/") THEN TrueClose(text, i + 2, "line")
                 ELSE IF TwoAt(text, i, "/", "*") THEN TrueClose(text, i + 2, "block")
                 ELSE IF c \in {quote_single, quote_double} THEN TrueClose(text, i + 1, c)
                 ELSE TrueClose(text, i + 1, "code")
          [] m = "line" ->
                 TrueClose(text, i + 1, IF c = "\n" THEN "code" ELSE "line")
          [] m = "block" ->
                 IF TwoAt(text, i, "*", "/") THEN TrueClose(text, i + 2, "code")
                 ELSE TrueClose(text, i + 1, "block")
          [] OTHER ->
                 TrueClose(text, i + 1, IF c = m THEN "code" ELSE m)

RECURSIVE HiddenCloses(_, _, _)
\* the indexes of the close tags spelled inside a string literal or a //
\* comment, before the first close tag outside every literal and comment
HiddenCloses(text, i, m) ==
    IF i >= Len(text) THEN {}
    ELSE LET c == text[i + 1] IN
        CASE m = "code" ->
                 IF ClosesAt(text, i) THEN {}
                 ELSE IF TwoAt(text, i, "/", "/") THEN HiddenCloses(text, i + 2, "line")
                 ELSE IF TwoAt(text, i, "/", "*") THEN HiddenCloses(text, i + 2, "block")
                 ELSE IF c \in {quote_single, quote_double} THEN HiddenCloses(text, i + 1, c)
                 ELSE HiddenCloses(text, i + 1, "code")
          [] m = "line" ->
                 (IF ClosesAt(text, i) THEN {i} ELSE {})
                     \cup HiddenCloses(text, i + 1, IF c = "\n" THEN "code" ELSE "line")
          [] m = "block" ->
                 IF TwoAt(text, i, "*", "/") THEN HiddenCloses(text, i + 2, "code")
                 ELSE HiddenCloses(text, i + 1, "block")
          [] OTHER ->
                 (IF ClosesAt(text, i) THEN {i} ELSE {})
                     \cup HiddenCloses(text, i + 1, IF c = m THEN "code" ELSE m)

\* C5: for a JavaScript body readUntilScriptTagClose returns exactly the
\* characters before the "<" of the first close tag that lies outside every
\* string literal and comment, and leaves the cursor right after the ">" of
\* that close tag, whatever other "<" the body holds before it.
C5_SpanToTrueClose ==
    (scr.done /\ scr_type = TEXT_JAVASCRIPT /\ TrueClose(scr_text, 0, "code") >= 0) =>
        /\ scr.results = SubSeq(scr_text, 1, TrueClose(scr_text, 0, "code"))
        /\ scr.cursor = TrueClose(scr_text, 0, "code") + Len(CLOSE_SCRIPT)

\* C6: for a JavaScript body a close tag spelled inside a string literal or
\* inside a // comment does not end the scan: the span returned holds it.
C6_HiddenCloseKept ==
    (scr.done /\ scr_type = TEXT_JAVASCRIPT) =>
        \A i \in HiddenCloses(scr_text, 0, "code") :
            /\ Len(scr.results) >= i + Len(CLOSE_SCRIPT)
            /\ SubSeq(scr.results, i + 1, i + Len(CLOSE_SCRIPT)) = CLOSE_SCRIPT

-----------------------------------------------------------------------------
(* The tag a document of tag pieces spells *)

NameKinds == {"name", "voidname"}

\* the attributes written: their names are distinct
AttrsOnly(d, from, to) ==
    /\ \A i \in from..to : d[i].kind = "attr"
    /\ \A i, j \in from..to : d[i].name = d[j].name => i = j

\* <name attr ... attr />
SelfClosingForm(d) ==
    /\ Len(d) >= 3
    /\ d[1] = Lt
    /\ d[2].kind \in NameKinds
    /\ AttrsOnly(d, 3, Len(d) - 1)
    /\ d[Len(d)] = SelfClose

\* <name attr ... attr/>
SlashForm(d) ==
    /\ Len(d) >= 4
    /\ d[1] = Lt
    /\ d[2].kind \in NameKinds
    /\ AttrsOnly(d, 3, Len(d) - 2)
    /\ d[Len(d) - 1] = Slash
    /\ d[Len(d)] = Gt

\* <name attr ... attr>
OpenForm(d) ==
    /\ Len(d) >= 3
    /\ d[1] = Lt
    /\ d[2].kind \in NameKinds
    /\ AttrsOnly(d, 3, Len(d) - 1)
    /\ d[Len(d)] = Gt

\* </name>
CloseForm(d) ==
    /\ Len(d) = 4
    /\ d[1] = Lt
    /\ d[2] = Slash
    /\ d[3].kind \in NameKinds
    /\ d[4] = Gt

TagForm(d) == SelfClosingForm(d) \/ SlashForm(d) \/ OpenForm(d) \/ CloseForm(d)

\* the name piece of a tag form
NamePiece(d) == IF d[2] = Slash THEN d[3] ELSE d[2]

\* the attribute map the attribute pieces of d write
WrittenAttributes(d) ==
    [k \in {d[i].name : i \in {j \in 1..Len(d) : d[j].kind = "attr"}} |->
        (CHOOSE q \in {d[i] : i \in 1..Len(d)} : q.kind = "attr" /\ q.name = k).attrs]

\* the document starts with a complete tag: the number of its pieces
FirstTag(d) ==
    IF \E n \in 1..Len(d) : TagForm(SubSeq(d, 1, n))
    THEN CHOOSE n \in 1..Len(d) : TagForm(SubSeq(d, 1, n))
    ELSE 0

HasUpperCase(str) == \E i \in 1..Len(str) : \E j \in DOMAIN UpperCase : str[i] = UpperCase[j]

\* C7: for a tag <name k1="v1" ... kn="vn" /> readTag returns, without an
\* error, the lower-cased name, is_void, not is_close, and exactly the
\* attributes written.
C7_SelfClosingTag ==
    (tag.done /\ SelfClosingForm(doc)) =>
        /\ tag.err = NoError
        /\ tag.elem.ElementName = doc[2].name
        /\ tag.elem.IsVoid
        /\ ~tag.elem.IsClose
        /\ tag.elem.Attributes = WrittenAttributes(doc)

\* C8: when readTag returns without an error for a tag that is complete in
\* the input, the cursor is right after the ">" that ends the tag.
C8_CursorAfterTag ==
    (tag.done /\ tag.err = NoError /\ FirstTag(doc) > 0) =>
        tag.cursor = Len(Flatten(SubSeq(doc, 1, FirstTag(doc))))

\* C9: for a tag completed by ">" is_void is true exactly when the tag is
\* self-closing or its name is a known void element name, in any letter
\* case; the recorded name is lower case.
C9_VoidFlag ==
    (tag.done /\ TagForm(doc)) =>
        /\ tag.elem.IsVoid <=>
               (SelfClosingForm(doc) \/ SlashForm(doc) \/ NamePiece(doc).kind = "voidname")
        /\ ~HasUpperCase(tag.elem.ElementName)

-----------------------------------------------------------------------------
(* The tree builder: text runs *)

\* the run of characters a step of the tree builder scanned, from the cursor
\* before the step to the cursor after it
Whitespace == {" ", "\t", "\r", "\n"}

TextLeaf(run) ==
    [ZeroElement EXCEPT !.ElementName = <<"t","e","x","t">>, !.IsText = TRUE,
                        !.IsVoid = TRUE, !.InnerHTML = run]

C10_Step ==
    (pc = "loop" /\ pc' = "tag") =>
        LET run == SubSeq(body, cursor + 1, cursor')
            n == Len(frames)
            before == frames[n].parentElement
            after == frames'[n].parentElement
        IN /\ \A i \in 1..Len(run) : run[i] # "<"
           /\ cursor' = Len(body) \/ body[cursor' + 1] = "<"
           /\ Len(frames') = n
           /\ IF \E i \in 1..Len(run) : run[i] \notin Whitespace
              THEN after = [before EXCEPT !.Children = Append(@, TextLeaf(run))]
              ELSE after = before

\* C10: the run of characters the tree builder scans up to the next tag
\* produces a text leaf exactly when it holds a character that is not
\* whitespace; the leaf holds the whole run, untrimmed; a run of whitespace
\* only produces no node.
C10_TextRuns == [][C10_Step]_vars

\* a run between two tags, with whitespace on both sides of its text, has
\* been stored whole as the only child of its element: the whitespace run
\* before that element left no node
C10_Witness ==
    /\ pc = "tag"
    /\ cursor < Len(body)
    /\ Len(frames) = 3
    /\ frames[2].parentElement.Children = <<>>
    /\ Len(TopFrame.parentElement.Children) = 1
    /\ LET last == TopFrame.parentElement.Children[1]
       IN /\ last.IsText
          /\ Len(last.InnerHTML) >= 3
          /\ last.InnerHTML[1] \in Whitespace
          /\ last.InnerHTML[Len(last.InnerHTML)] \in Whitespace
          /\ last.InnerHTML = SubSeq(body, cursor - Len(last.InnerHTML) + 1, cursor)

-----------------------------------------------------------------------------
(* Errors *)

\* the characters of text from index c (0-based) on start with part
StartsAt(text, c, part) ==
    /\ c + Len(part) <= Len(text)
    /\ SubSeq(text, c + 1, c + Len(part)) = part

\* the error a rejected tag stands for
ErrorOf(p) == IF p.kind = "empty" THEN ERR_EMPTY_TAG ELSE ERR_ALMOST_COMMENT

\* the rejected tag of a document of ErrorDocs
Rejected(d) == CHOOSE i \in 1..Len(d) : d[i] \in ErrorPieces

\* the tokenizer, called at a rejected tag, returns its error and leaves the
\* cursor right after the last character of the rejected tag
C11_Step ==
    \A p \in ErrorPieces :
        (pc = "tag" /\ StartsAt(body, cursor, p.text)) =>
            /\ err' = ErrorOf(p)
            /\ cursor' = cursor + Len(p.text)
            /\ pc' = "return"

\* both entry points return the error of the rejected tag
C11_Returned ==
    \A m \in BOOLEAN :
        (doc \in ErrorDocs /\ out[m].returned) =>
            out[m].err = ErrorOf(doc[Rejected(doc)])

\* C11: readTag returns the empty-tag error for <>, < > and </> and the
\* almost-a-comment error for <!-X with X other than "-", with the cursor
\* left right after the offending character (the ">" or the X); Parse and
\* ParseStrict both return that error.
C11_TagShapeErrors == [][C11_Step]_vars /\ []C11_Returned

\* both entry points have returned the almost-a-comment error of a tag
\* rejected two levels down, the cursor right after its X and before the
\* input that follows
C11_Witness ==
    /\ Len(doc) = 4
    /\ doc[3] = AlmostCommentX
    /\ out[TRUE].returned /\ out[TRUE].err = ERR_ALMOST_COMMENT
    /\ out[FALSE].returned /\ out[FALSE].err = ERR_ALMOST_COMMENT
    /\ cursor = Len(Flatten(SubSeq(doc, 1, 3)))
    /\ cursor < Len(body)

\* an error has been raised, by the tokenizer or by the strict check of a
\* close tag, and is being returned
C12_Raised == err # NoError

\* the step taken while an error is being returned: a return of the
\* innermost level, to its caller with the same error or, from the first
\* level, to the caller of the entry point, which gets exactly that error;
\* the cursor does not move and no tag is tokenized
C12_Step ==
    C12_Raised =>
        /\ pc = "return"
        /\ cursor' = cursor
        /\ read_tag' = read_tag
        /\ IF Len(frames) > 1
           THEN /\ Len(frames') = Len(frames) - 1
                /\ err' = err
                /\ pc' = "return"
           ELSE /\ frames' = <<>>
                /\ pc' = "idle"
                /\ out'[strict].returned
                /\ out'[strict].err = err

\* the entry point has returned an error
C12_Returned ==
    /\ pc = "idle"
    /\ out[strict].returned
    /\ out[strict].err # NoError

\* C12: errors are fatal to the parse: once the tokenizer or a strict-mode
\* close-tag check raises an error, at any recursion depth, the cursor never
\* moves again, no further tag is tokenized, every enclosing level returns
\* and the entry point returns exactly that error.
C12_ErrorsAreFatal == [][C12_Step]_vars /\ (C12_Raised ~> C12_Returned)

\* ParseStrict has returned the mismatch error raised three levels down in
\* SNIPPET_INVALID, with input left unread
C12_Witness ==
    /\ doc = SNIPPET_INVALID
    /\ pc = "idle"
    /\ strict
    /\ out[TRUE].returned
    /\ Contains(out[TRUE].err, <<"unexpected close </">>)
    /\ cursor < Len(body)

\* the number, counted from 1, of the line that holds the character at
\* index c (0-based) of text
LineOf(text, c) == 1 + Cardinality({i \in 1..c : text[i] = "\n"})

\* C13: the line number in the strict-mode mismatch message is 1-based: one
\* more than the number of newline characters before the cursor, so that a
\* mismatch on the first line is reported as line 1.
C13_LineNumber ==
    (strict /\ pc = "return" /\ Contains(err, <<"unexpected close </">>)) =>
        Contains(err, <<">) on line: ">> \o Itoa(LineOf(body, cursor))
                          \o <<"\ncurrent path: ">>)

-----------------------------------------------------------------------------
(* elementStack *)

RECURSIVE FromTop(_, _)
\* the values on a stack, the last pushed first: the Value of the Top node,
\* then those of the nodes its Next pointers lead to
FromTop(h, p) ==
    IF p = NilNode THEN <<>> ELSE <<h[p].Value>> \o FromTop(h, h[p].Next)

\* the entries of the stack value es, the first pushed first
Entries(h, es) ==
    [i \in 1..Len(FromTop(h, es.Top)) |->
        FromTop(h, es.Top)[Len(FromTop(h, es.Top)) + 1 - i]]

RECURSIVE Rendered(_)
\* the names of the entries joined by " > "
Rendered(entries) ==
    IF Len(entries) = 1 THEN entries[1].ElementName
    ELSE Rendered(SubSeq(entries, 1, Len(entries) - 1))
             \o <<" > ">> \o entries[Len(entries)].ElementName

\* what ToString is to return for the stack value es
Path(h, es) == IF Entries(h, es) = <<>> THEN <<"*">> ELSE Rendered(Entries(h, es))

\* a call of ToString returns the names from the first pushed to the last
\* pushed joined by " > ", or "*", and changes no stack and no node
C14_Step ==
    ret'.op = "ToString" =>
        /\ ret'.text = Path(heap, stacks[ret'.on])
        /\ stacks' = stacks
        /\ heap' = heap

\* C14: elementStack.ToString renders the names on the stack from the first
\* pushed (bottom) to the last pushed (top) joined by " > ", and "*" for an
\* empty stack; it does not change the stack.
C14_ToString == [][C14_Step]_vars

\* ToString has returned "br > div > div", as in TestElementStack
C14_Witness ==
    /\ ret.op = "ToString"
    /\ ret.text = <<"b","r"," > ","d","i","v"," > ","d","i","v">>
    /\ stacks[ret.on].Count = 3

\* the stack s read through its methods: its entries, its Count and what
\* its ToString returns
Observed(h, st, s) ==
    [entries |-> Entries(h, st[s]), Count |-> st[s].Count, path |-> Path(h, st[s])]

\* a call of Duplicate returns a new stack with the entries of the original
\* in the same order and with its Count, and leaves the original as it was;
\* a call of any method on one stack leaves the other stack as it was
C15_Step ==
    /\ Len(stacks') = Len(stacks) + 1 =>
           /\ ret'.op = "Duplicate"
           /\ ret'.stack = Len(stacks')
           /\ Observed(heap', stacks', ret'.stack) = Observed(heap, stacks, ret'.on)
           /\ Observed(heap', stacks', ret'.on) = Observed(heap, stacks, ret'.on)
    /\ \A t \in 1..Len(stacks) :
           t # ret'.on => Observed(heap', stacks', t) = Observed(heap, stacks, t)

\* C15: elementStack.Duplicate returns a stack with the same entries in the
\* same order and the same Count as the original, and the two stacks are
\* independent: a Push or a Pop on either one leaves the entries, the Count
\* and the ToString of the other unchanged.
C15_Duplicate == [][C15_Step]_vars

\* a stack of two entries was duplicated and then popped: the duplicate
\* still holds both entries
C15_Witness ==
    /\ Len(stacks) = 2
    /\ ret.op = "Pop"
    /\ ret.on = 1
    /\ ret.elem = STACK_DIV_SECOND
    /\ Observed(heap, stacks, 1) =
           [entries |-> <<STACK_BR>>, Count |-> 1, path |-> <<"b","r">>]
    /\ Observed(heap, stacks, 2) =
           [entries |-> <<STACK_BR, STACK_DIV_SECOND>>, Count |-> 2,
            path |-> <<"b","r"," > ","d","i","v">>]

\* Count is the number of entries of every stack, and is not negative
C16_Count ==
    \A s \in 1..Len(stacks) :
        /\ stacks[s].Count = Len(Entries(heap, stacks[s]))
        /\ stacks[s].Count >= 0

\* what a call of Push, Pop or Peek does to its stack and returns
C16_Step ==
    LET s == ret'.on
        before == Entries(heap, stacks[s])
        after == Entries(heap', stacks'[s])
    IN /\ ret'.op = "Push" =>
              /\ after = Append(before, ret'.arg)
              /\ stacks'[s].Count = stacks[s].Count + 1
       /\ (ret'.op = "Pop" /\ before # <<>>) =>
              /\ ret'.elem = before[Len(before)]
              /\ after = SubSeq(before, 1, Len(before) - 1)
              /\ stacks'[s].Count = stacks[s].Count - 1
       /\ (ret'.op = "Pop" /\ before = <<>>) =>
              /\ ret'.elem = Nil
              /\ after = <<>>
              /\ stacks'[s].Count = 0
       /\ ret'.op = "Peek" =>
              /\ ret'.elem = IF before = <<>> THEN Nil ELSE before[Len(before)]
              /\ stacks' = stacks
              /\ heap' = heap

\* C16: after any sequence of Push, Pop and Peek, Count is the number of
\* entries and is never negative: Push puts its value on top and adds one,
\* Pop removes and returns the last pushed value that is left, with its
\* attributes, and subtracts one, Pop on an empty stack returns nil and
\* leaves Count at 0, Peek returns the top value and changes nothing.
C16_StackCount == []C16_Count /\ [][C16_Step]_vars

\* Pop has returned nil on a stack emptied by earlier calls of Pop
C16_Witness ==
    /\ ret.op = "Pop"
    /\ ret.elem = Nil
    /\ stacks[ret.on].Count = 0
    /\ Len(heap) >= 2
    /\ Len(stacks) = 1

-----------------------------------------------------------------------------
(* The forward pass *)

\* the cursor is within the input and the parse has not been stopped by the
\* runtime: it is running or has ended with a tree or an error
C17_Within ==
    /\ cursor \in 0..Len(body)
    /\ pc # "panic"

\* within a parse the cursor never moves back, and a call of the tokenizer
\* or of the script scanner made before the end of the input moves it on
C17_Step ==
    /\ pc # "idle" => cursor' >= cursor
    /\ (pc = "tag" /\ cursor < Len(body)) => cursor' > cursor
    /\ (/\ pc = "dispatch"
        /\ ~read_tag.IsClose
        /\ ~read_tag.IsVoid
        /\ read_tag.ElementName = ELEMENT_SCRIPT
        /\ cursor < Len(body)) => cursor' > cursor

\* C17: Parse and ParseStrict terminate on every finite input: the parse is
\* one forward pass in which the cursor stays within 0..len(input), every
\* call of the tokenizer or of the script scanner made before the end of the
\* input returns with the cursor further on, and the parse ends with a tree
\* or an error.
C17_Terminates == []C17_Within /\ [][C17_Step]_vars

-----------------------------------------------------------------------------
(* The end of the input *)

RECURSIVE StillOpen(_, _)
\* the names of the containers still open at the end of a document whose
\* close pieces all match, innermost first; ok is FALSE for a document with
\* a close piece that matches nothing
StillOpen(d, open) ==
    IF d = <<>> THEN [ok |-> TRUE, open |-> open]
    ELSE LET p == Head(d) IN
         CASE p.kind = "open" -> StillOpen(Tail(d), <<p.name>> \o open)
           [] p.kind = "close" ->
                  IF open # <<>> /\ Head(open) = p.name
                  THEN StillOpen(Tail(d), Tail(open))
                  ELSE [ok |-> FALSE, open |-> <<>>]
           [] p.kind \in {"void", "text"} -> StillOpen(Tail(d), open)
           [] OTHER -> [ok |-> FALSE, open |-> <<>>]

\* a document of container tags, void tags and text that ends with
\* containers still open
Unclosed(d) ==
    /\ StillOpen(d, <<>>).ok
    /\ StillOpen(d, <<>>).open # <<>>

\* the document with the close pieces its open containers lack
Completed(d) ==
    d \o [i \in 1..Len(StillOpen(d, <<>>).open) |->
             Piece("close", StillOpen(d, <<>>).open[i], <<>>, <<>>)]

RECURSIVE HoldsAll(_, _)
\* the children hold the expected nodes, in order, each with the expected
\* nodes below it
HoldsAll(children, expected) ==
    /\ Len(children) >= Len(expected)
    /\ \A i \in 1..Len(expected) :
        /\ children[i].name = expected[i].name
        /\ children[i].attrs = expected[i].attrs
        /\ children[i].text = expected[i].text
        /\ children[i].leaf = expected[i].leaf
        /\ HoldsAll(children[i].children, expected[i].children)

\* C18: the end of the input inside open containers is not an error in
\* either mode: Parse and ParseStrict return a nil error, and each unclosed
\* container is completed there, holding as descendants the nodes parsed
\* after its open tag.
C18_UnclosedAtEnd ==
    Unclosed(doc) =>
        \A m \in BOOLEAN :
            out[m].returned =>
                /\ out[m].err = NoError
                /\ HoldsAll(Shape(out[m].root).children,
                            Nesting(Completed(doc), <<Node(<<>>, <<>>, <<>>, FALSE)>>))

\* both entry points have returned for a document that ends inside two open
\* containers, the inner one holding a leaf
C18_Witness ==
    /\ Len(doc) = 3
    /\ doc[1].kind = "open"
    /\ doc[2].kind = "open"
    /\ doc[3].kind \in {"void", "text"}
    /\ out[TRUE].returned
    /\ out[FALSE].returned
    /\ Len(out[TRUE].root.Children) = 1
    /\ Len(out[TRUE].root.Children[1].Children) = 1
    /\ Len(out[TRUE].root.Children[1].Children[1].Children) >= 1

-----------------------------------------------------------------------------
(* The flags of the nodes of a tree *)

RECURSIVE Nodes(_)
\* the element e and every element below it
Nodes(e) == {e} \cup UNION {Nodes(e.Children[i]) : i \in DOMAIN e.Children}

\* the nodes of the trees returned so far, with or without an error
ReturnedNodes ==
    UNION {Nodes(out[m].root) : m \in {k \in BOOLEAN : out[k].returned}}

\* C19: in every tree Parse or ParseStrict returns, with or without an
\* error, a node with IsVoid set and a node with IsText set have no
\* children, and a node with IsText set has the reserved name "text".
C19_Leaves ==
    \A n \in ReturnedNodes :
        /\ (n.IsVoid \/ n.IsText) => n.Children = <<>>
        /\ n.IsText => n.ElementName = ELEMENT_INTERNAL_TEXT

\* ParseStrict has returned an error and a tree with a text node and a void
\* tag in it, the void tag followed by another node
C19_Witness ==
    /\ doc = SNIPPET_INVALID
    /\ out[TRUE].returned
    /\ out[TRUE].err # NoError
    /\ \E n \in Nodes(out[TRUE].root) :
           /\ Len(n.Children) >= 2
           /\ n.Children[1].IsVoid /\ ~n.Children[1].IsText
           /\ n.Children[1].ElementName = <<"b","r">>
    /\ \E n \in Nodes(out[TRUE].root) :
           /\ n.IsText
           /\ n.InnerHTML = <<"T","e","s","t","!">>

-----------------------------------------------------------------------------
(* Close tags *)

\* the nodes of the trees under construction
PendingNodes ==
    UNION {Nodes(frames[i].parentElement) : i \in DOMAIN frames}

\* no tree, returned or under construction, has a node with IsClose set
C20_NoCloseNode == \A n \in ReturnedNodes \cup PendingNodes : ~n.IsClose

\* the steps taken on a close tag add no child to any element
C20_Step ==
    (pc = "dispatch" /\ read_tag.IsClose) =>
        /\ Len(frames') = Len(frames)
        /\ \A i \in DOMAIN frames :
               frames'[i].parentElement.Children = frames[i].parentElement.Children

\* C20: no node of a tree returned by Parse or ParseStrict has IsClose set;
\* a close tag read by readTag is never added as a child, whatever its name
\* (the void name of </br> included) and in either mode.
C20_CloseNeverAppended == []C20_NoCloseNode /\ [][C20_Step]_vars

\* both entry points have returned for <a><br></br>x</a>: the tree holds
\* the void tag and the text, and nothing for </br>
C20_Witness ==
    /\ doc = <<OpenA, VoidBr, CloseBr, TextX, CloseA>>
    /\ out[FALSE].returned
    /\ out[FALSE].err = NoError
    /\ Len(out[FALSE].root.Children) = 1
    /\ Len(out[FALSE].root.Children[1].Children) = 2
    /\ out[FALSE].root.Children[1].Children[1].ElementName = <<"b","r">>
    /\ out[FALSE].root.Children[1].Children[2].IsText
    /\ out[TRUE].returned
    /\ out[TRUE].err # NoError

-----------------------------------------------------------------------------
(* Parent *)

RECURSIVE Members(_, _)
\* the addresses of the nodes of the tree whose root is at the address at
Members(m, at) ==
    {at} \cup UNION {Members(m, m[at].Children[i]) : i \in DOMAIN m[at].Children}

\* C21: in the tree Parse returns, Parent of every node but the root is the
\* address of the node whose Children holds that node, which is a node of
\* the tree and not a copy of one, and Parent of the root is nil.
C21_ParentIsContainer ==
    root_at # NilNode =>
        /\ cells[root_at].Parent = NilNode
        /\ \A at \in Members(cells, root_at) :
               \A i \in DOMAIN cells[at].Children :
                   cells[cells[at].Children[i]].Parent = at

\* the root is returned without a Parent
C21_RootHasNoParent ==
    root_at # NilNode => cells[root_at].Parent = NilNode

\* Parent of a node of the returned tree is the address of an Element with
\* the name and the Children of the node that holds it, at another address
C21_ParentIsCopy ==
    root_at # NilNode =>
        \A at \in Members(cells, root_at) :
            \A i \in DOMAIN cells[at].Children :
                LET parent == cells[cells[at].Children[i]].Parent IN
                    /\ parent # at
                    /\ parent \notin Members(cells, root_at)
                    /\ cells[parent].ElementName = cells[at].ElementName
                    /\ cells[parent].Children = cells[at].Children

-----------------------------------------------------------------------------
(* The order in which the tree is built *)

\* an element on which the recursive call is made
IsContainer(e) ==
    ~e.IsVoid /\ ~e.IsText /\ e.ElementName # ELEMENT_SCRIPT

Label(isText, value) == [text |-> isText, value |-> value]

\* the text run r of a document as a sequence of labels: none when it is
\* empty or whitespace only
RunLabel(r) ==
    IF r = <<>> \/ isContinuousWhitespace(r) THEN <<>> ELSE <<Label(TRUE, r)>>

RECURSIVE DocLabels(_, _)
\* the open tags, void tags and text runs of the document d in the order of
\* their first characters, r being the text run read so far
DocLabels(d, r) ==
    IF d = <<>> THEN RunLabel(r)
    ELSE LET p == Head(d) IN
         CASE p.kind \in {"text", "ws"} -> DocLabels(Tail(d), r \o p.text)
           [] p.kind \in {"open", "void"} ->
                  RunLabel(r) \o <<Label(FALSE, p.name)>> \o DocLabels(Tail(d), <<>>)
           [] OTHER -> RunLabel(r) \o DocLabels(Tail(d), <<>>)

RECURSIVE Preorder(_)
RECURSIVE PreorderAll(_)
\* the nodes below e, each before its children and its children in the
\* order of the list
Preorder(e) == PreorderAll(e.Children)
PreorderAll(children) ==
    IF children = <<>> THEN <<>>
    ELSE <<Label(Head(children).IsText,
                 IF Head(children).IsText THEN Head(children).InnerHTML
                 ELSE Head(children).ElementName)>>
          \o Preorder(Head(children)) \o PreorderAll(Tail(children))

\* a document of container tags, close tags, void tags, text and
\* whitespace, the values of the attributes in double quotes
Markup(d) ==
    \A i \in DOMAIN d :
        /\ d[i].kind \in {"open", "close", "void", "text", "ws"}
        /\ \A j \in DOMAIN d[i].text :
               d[i].text[j] = "=" =>
                   j < Len(d[i].text) /\ d[i].text[j + 1] = quote_double

\* the step of a parse: a Children list changes by one node added at its
\* end, and only that of the element of the running call; a container is
\* added by the return of the call made on it, which adds it to the element
\* of the caller; the call made on a container starts with no children and
\* adds nothing to the elements of the calls above it
C22_Step ==
    LET n == Len(frames)
        m == Len(frames')
        Kept == {i \in 1..n : i <= m}
    IN
    /\ \A i \in Kept :
        LET K == frames[i].parentElement.Children
            L == frames'[i].parentElement.Children
        IN \/ L = K
           \/ /\ i = m
              /\ m <= n
              /\ Len(L) = Len(K) + 1
              /\ SubSeq(L, 1, Len(K)) = K
              /\ IsContainer(L[Len(L)]) =>
                    /\ pc = "return"
                    /\ m = n - 1
                    /\ L[Len(L)] = frames[n].parentElement
    /\ (m = n - 1 /\ m >= 1) =>
           frames'[m].parentElement.Children =
               Append(frames[m].parentElement.Children, frames[n].parentElement)
    /\ (m = n + 1 /\ n >= 1) =>
           /\ frames'[m].parentElement.Children = <<>>
           /\ IsContainer(frames'[m].parentElement)

\* the nodes of a returned tree, each before its children, are the tags and
\* text runs of the document in the order of their first characters: all of
\* them (and at most the element made at the end of the input) when no
\* error is returned, the first of them when one is
C22_Order ==
    Markup(doc) =>
        \A k \in BOOLEAN :
            out[k].returned =>
                LET nodes == Preorder(out[k].root)
                    labels == DocLabels(doc, <<>>)
                IN IF out[k].err = NoError
                   THEN \/ nodes = labels
                        \/ nodes = labels \o <<Label(FALSE, EMPTY)>>
                   ELSE /\ Len(nodes) <= Len(labels)
                        /\ nodes = SubSeq(labels, 1, Len(nodes))

\* C22: during a parse each container is added to the children of its
\* parent once, after the recursive call made on it has returned; a child
\* is only added at the end of a Children list, so every Children list is in
\* the order in which the first characters of its nodes occur in the input.
C22_BuiltBottomUp == [][C22_Step]_vars /\ []C22_Order

\* Parse has returned the tree of SNIPPET: two div elements in this order,
\* the first with br before p, each container added after its children
C22_Witness ==
    /\ doc = SNIPPET
    /\ out[FALSE].returned
    /\ Len(out[FALSE].root.Children) = 2
    /\ out[FALSE].root.Children[1].Attributes[<<"i","d">>] = <<"f","i","r","s","t">>
    /\ out[FALSE].root.Children[2].Attributes[<<"i","d">>] = <<"s","e","c","o","n","d">>
    /\ Len(out[FALSE].root.Children[1].Children) = 2
    /\ out[FALSE].root.Children[1].Children[1].ElementName = <<"b","r">>
    /\ out[FALSE].root.Children[1].Children[2].ElementName = <<"p">>
    /\ Len(Preorder(out[FALSE].root)) = 8

-----------------------------------------------------------------------------
(* The Tag-Context Stack of each level *)

\* the names on the stack es, bottom first
StackNames(es) == [i \in 1..Len(es.Top) |-> BottomFirst(es)[i].ElementName]

\* the names of the containers the calls 2..k were made on, outermost first
OpenNames(k) == [i \in 1..(k - 1) |-> frames[i + 1].parentElement.ElementName]

\* the stack of each call holds the names of the containers open at its
\* level, outermost first, and Count is the depth of the level; the call
\* that returns after its close tag matched has popped the name of its own
\* container, which is closed
C23_Stacks ==
    \A i \in DOMAIN frames :
        LET es == frames[i].tagStack IN
        \/ /\ StackNames(es) = OpenNames(i)
           /\ es.Count = i - 1
        \/ /\ i = Len(frames) /\ i >= 2
           /\ pc = "return" /\ err = NoError
           /\ StackNames(es) = OpenNames(i - 1)
           /\ es.Count = i - 2

\* no step changes the stack of a call other than the running one, and the
\* stack of the running call changes only by the Pop at a close tag that
\* matches
C23_Step ==
    \A i \in DOMAIN frames :
        (i <= Len(frames') /\ frames'[i].tagStack # frames[i].tagStack) =>
            /\ i = Len(frames)
            /\ pc = "dispatch"
            /\ read_tag.IsClose
            /\ Peek(frames[i].tagStack).ElementName = read_tag.ElementName
            /\ frames'[i].tagStack = Pop(frames[i].tagStack)
            /\ pc' = "return"

\* C23: at every point of a parse the Tag-Context Stack of the running
\* level holds the names of the containers that are open, outermost first,
\* and its Count is the depth of the recursion, 0 at the top level; the
\* stack of an enclosing level is not changed by the Push of a level below
\* it nor by the Pop at a close tag that matches.
C23_StackIsOpenPath == []C23_Stacks /\ [][C23_Step]_vars

\* in SNIPPET the tag after <h2> is being handled two levels down in the
\* second div, after the first div and what it holds were closed
C23_Witness ==
    /\ doc = SNIPPET
    /\ pc = "dispatch"
    /\ Len(frames) = 3
    /\ frames[2].parentElement.Attributes[<<"i","d">>] = <<"s","e","c","o","n","d">>
    /\ StackNames(TopFrame.tagStack) = << <<"d","i","v">>, <<"h","2">> >>
    /\ TopFrame.tagStack.Count = 2
    /\ frames[2].tagStack.Count = 1
    /\ frames[1].tagStack.Count = 0
    /\ read_tag.IsClose

-----------------------------------------------------------------------------
(* A close tag that is dropped *)

\* a close tag has been read, the stack is not checked and not empty, and
\* the name on top of it is another one
Dropped ==
    /\ pc = "dispatch"
    /\ read_tag.IsClose
    /\ ~strict
    /\ Peek(TopFrame.tagStack) # Nil
    /\ Peek(TopFrame.tagStack).ElementName # read_tag.ElementName

\* reading a close tag moves the cursor and nothing else of the parse, and
\* the step taken on a dropped close tag leaves the elements, the stacks,
\* the calls and the cursor as they are and goes back to the head of the
\* loop of the same call
C24_Step ==
    /\ (pc = "tag" /\ pc' = "dispatch" /\ read_tag'.IsClose) =>
           /\ frames' = frames
           /\ cursor' > cursor
           /\ err' = err /\ out' = out
    /\ Dropped =>
           /\ frames' = frames
           /\ cursor' = cursor
           /\ pc' = "loop"
           /\ err' = NoError /\ out' = out

\* C24: when the stack is not checked, a close tag whose name is not the one
\* on top of a non-empty stack changes the cursor only: no node is added,
\* the stack stays as it is, the level does not return, and the next text
\* run and tag become children of the same element.
C24_DroppedCloseTag == [][C24_Step]_vars

\* Parse has returned for <a></br>x</a>: the text after the dropped </br> is
\* the only child of a, and </a> after it has closed a
C24_Witness ==
    /\ doc = <<OpenA, CloseBr, TextX, CloseA>>
    /\ out[FALSE].returned
    /\ out[FALSE].err = NoError
    /\ Len(out[FALSE].root.Children) = 1
    /\ out[FALSE].root.Children[1].ElementName = <<"a">>
    /\ Len(out[FALSE].root.Children[1].Children) = 1
    /\ out[FALSE].root.Children[1].Children[1].IsText
    /\ out[FALSE].root.Children[1].Children[1].InnerHTML = <<"x">>
    /\ ~out[TRUE].returned

-----------------------------------------------------------------------------
(* The tree returned with an error *)

RECURSIVE Folded(_)
\* the element of the first of the calls fs with the element of each call
\* added, as it is, to the element of its caller
Folded(fs) ==
    IF Len(fs) = 1 THEN fs[1].parentElement
    ELSE Folded([SubSeq(fs, 1, Len(fs) - 1) EXCEPT
             ![Len(fs) - 1].parentElement = AddChild(@, fs[Len(fs)].parentElement)])

\* a call is returning an error
Failing == pc = "return" /\ err # NoError

\* while an error is returned the chain of the elements of the active calls
\* stays what it was: each return adds the element of the call to that of
\* its caller and passes the same error on, and the entry point returns the
\* whole chain with the error
C25_Step ==
    Failing =>
        /\ Len(frames') = Len(frames) - 1
        /\ IF frames' # <<>>
           THEN /\ Folded(frames') = Folded(frames)
                /\ frames'[Len(frames')].parentElement.Children =
                       Append(frames[Len(frames')].parentElement.Children,
                              TopFrame.parentElement)
                /\ err' = err
                /\ pc' = "return"
           ELSE /\ out'[strict].returned
                /\ out'[strict].root = Folded(frames)
                /\ out'[strict].err = err

\* C25: when a parse fails inside a container, at any depth, each enclosing
\* container is added to its parent before the error is passed on, so the
\* root returned with the error holds the chain of the elements that were
\* open when the error occurred, with the children parsed so far.
C25_PartialTree == [][C25_Step]_vars

\* ParseStrict has returned the error of SNIPPET_INVALID with div, p and h1,
\* which were open at </p>, one in the other, br and the text where they
\* were parsed
C25_Witness ==
    /\ doc = SNIPPET_INVALID
    /\ out[TRUE].returned
    /\ out[TRUE].err # NoError
    /\ Len(out[TRUE].root.Children) = 1
    /\ out[TRUE].root.Children[1].ElementName = <<"d","i","v">>
    /\ Len(out[TRUE].root.Children[1].Children) = 2
    /\ out[TRUE].root.Children[1].Children[1].ElementName = <<"b","r">>
    /\ out[TRUE].root.Children[1].Children[2].ElementName = <<"p">>
    /\ Len(out[TRUE].root.Children[1].Children[2].Children) = 1
    /\ out[TRUE].root.Children[1].Children[2].Children[1].ElementName = <<"h","1">>
    /\ Len(out[TRUE].root.Children[1].Children[2].Children[1].Children) = 1
    /\ out[TRUE].root.Children[1].Children[2].Children[1].Children[1].InnerHTML
           = <<"T","e","s","t","!">>

-----------------------------------------------------------------------------
(* Script elements *)

\* the script elements of the trees, returned or under construction, that
\* are not void
ScriptNodes ==
    {n \in ReturnedNodes \cup PendingNodes :
        n.ElementName = ELEMENT_SCRIPT /\ ~n.IsVoid}

\* a script element has one child, a text leaf
C26_OneTextChild ==
    \A n \in ScriptNodes :
        /\ Len(n.Children) = 1
        /\ n.Children[1].IsText
        /\ n.Children[1].Children = <<>>

\* no stack holds the name script
C26_NeverPushed ==
    \A i \in DOMAIN frames :
        \A j \in DOMAIN frames[i].tagStack.Top :
            frames[i].tagStack.Top[j].ElementName # ELEMENT_SCRIPT

\* the step taken on a script tag adds the tag with the span the scanner
\* returns as its text, whatever the span, moves the cursor to where the
\* scanner stopped and starts no call
C26_ScriptStep ==
    (pc = "dispatch" /\ ~read_tag.IsClose /\ ~read_tag.IsVoid
        /\ read_tag.ElementName = ELEMENT_SCRIPT) =>
        LET r == readUntilScriptTagClose(body, cursor, ScriptTypeOf(read_tag)) IN
        /\ Len(frames') = Len(frames)
        /\ cursor' = r.cursor
        /\ TopFrame'.parentElement.Children =
               Append(TopFrame.parentElement.Children,
                      [read_tag EXCEPT !.Children = <<newTextNode(r.results)>>])
        /\ TopFrame'.tagStack = TopFrame.tagStack

\* in a document whose </script> tags are all those of its script elements,
\* no close tag the tree builder gets from readTag is named script
C26_CloseConsumed ==
    (/\ \A i \in DOMAIN doc : doc[i].kind = "close" => doc[i].name # ELEMENT_SCRIPT
     /\ pc = "dispatch"
     /\ read_tag.IsClose) =>
        read_tag.ElementName # ELEMENT_SCRIPT

\* C26: every script element that is not void has one child in a returned
\* tree, a text leaf with the span the script-body scanner returned, kept
\* when it is empty or whitespace only; the name script is never pushed on
\* the Tag-Context Stack, and the </script> of the element is consumed by
\* the scanner and never compared with the stack.
C26_ScriptElement ==
    /\ []C26_OneTextChild
    /\ []C26_NeverPushed
    /\ [][C26_ScriptStep]_vars
    /\ []C26_CloseConsumed

\* the parts of C26 other than the one on </script>
C26_ScriptElementKept ==
    /\ []C26_OneTextChild
    /\ []C26_NeverPushed
    /\ [][C26_ScriptStep]_vars

\* Parse has returned for <script> </script>: the script element holds a
\* text leaf of one space
C26_SpaceKept ==
    /\ doc = <<ScriptSpace>>
    /\ out[FALSE].returned
    /\ out[FALSE].root.Children[1].ElementName = ELEMENT_SCRIPT
    /\ out[FALSE].root.Children[1].Children = <<newTextNode(<<" ">>)>>

-----------------------------------------------------------------------------
(* Block comments in a script body *)

\* the index after the first */ that follows the /* at the start of text,
\* or the length of text when there is none
CommentEnd(text) ==
    LET ends == {i \in 2..(Len(text) - 2) : TwoAt(text, i, "*", "/")}
    IN IF ends = {} THEN Len(text)
       ELSE (CHOOSE i \in ends : \A j \in ends : i <= j) + 2

\* C27: for a JavaScript body a block comment opened by /* extends to the
\* first */ that follows and no earlier: a close tag between them does not
\* end the scan, whatever * and / characters that form no */ the comment
\* holds.
C27_BlockComment ==
    (scr.done /\ scr_type = TEXT_JAVASCRIPT /\ TwoAt(scr_text, 0, "/", "*")) =>
        /\ Len(scr.results) >= CommentEnd(scr_text)
        /\ scr.cursor >= CommentEnd(scr_text)

\* a block comment without a * before its */ is scanned to its end: the
\* close tags in it do not end the scan
C27_PlainBlockComment ==
    (/\ scr.done /\ scr_type = TEXT_JAVASCRIPT /\ TwoAt(scr_text, 0, "/", "*")
     /\ \A i \in 3..(CommentEnd(scr_text) - 2) : scr_text[i] # "*") =>
        /\ Len(scr.results) >= CommentEnd(scr_text)
        /\ scr.cursor >= CommentEnd(scr_text)

-----------------------------------------------------------------------------
(* A script body of another type *)

\* the index of the "<" of the first close tag spelled in text, or -1
FirstClose(text) ==
    LET at == {i \in 0..Len(text) : ClosesAt(text, i)}
    IN IF at = {} THEN -1 ELSE CHOOSE i \in at : \A j \in at : i <= j

\* a body of a type other than text/javascript has been scanned: it holds a
\* close tag and no other "<" before it
OtherTypeScanned ==
    /\ scr.done
    /\ scr_type # TEXT_JAVASCRIPT
    /\ FirstClose(scr_text) >= 0
    /\ \A i \in 1..FirstClose(scr_text) : scr_text[i] # "<"

\* C28: for a type other than text/javascript the scanner has no comment
\* and no string states: quotes, // and /* are ordinary characters and the
\* scan ends at the first close tag of the body, also when an unmatched
\* quote comes before it.
C28_OtherType ==
    OtherTypeScanned =>
        /\ scr.results = SubSeq(scr_text, 1, FirstClose(scr_text))
        /\ scr.cursor = FirstClose(scr_text) + Len(CLOSE_SCRIPT)

\* without a quote before the close tag the scan ends at it, whatever / and
\* * come before it
C28_CommentsOrdinary ==
    (/\ OtherTypeScanned
     /\ \A i \in 1..FirstClose(scr_text) :
            scr_text[i] \notin {quote_single, quote_double}) =>
        /\ scr.results = SubSeq(scr_text, 1, FirstClose(scr_text))
        /\ scr.cursor = FirstClose(scr_text) + Len(CLOSE_SCRIPT)

-----------------------------------------------------------------------------
(* Comments *)

COMMENT_OPEN == <<"<","!","-","-">>
COMMENT_CLOSE == <<"-","-",">">>

\* the indexes (0-based) after <!-- at which --> is spelled
CommentCloses(text) ==
    {i \in Len(COMMENT_OPEN)..(Len(text) - Len(COMMENT_CLOSE)) :
        SubSeq(text, i + 1, i + Len(COMMENT_CLOSE)) = COMMENT_CLOSE}

\* text starts with a comment <!--BODY-->
CommentForm(text) ==
    /\ Len(text) >= Len(COMMENT_OPEN)
    /\ SubSeq(text, 1, Len(COMMENT_OPEN)) = COMMENT_OPEN
    /\ CommentCloses(text) # {}

\* the index of the first --> of the comment
BodyEnd(text) ==
    CHOOSE i \in CommentCloses(text) : \A j \in CommentCloses(text) : i <= j

\* C29: for a comment <!--BODY-->, BODY without -->, readTag returns a
\* record with IsComment and IsVoid set whose content is BODY: a - before a
\* character other than -, and -- before a character other than >, are kept
\* with the characters after them, and the comment ends at the first -->.
C29_CommentBody ==
    (tag.done /\ CommentForm(tag_text)) =>
        /\ tag.err = NoError
        /\ tag.elem.IsComment
        /\ tag.elem.IsVoid
        /\ tag.elem.InnerHTML =
               SubSeq(tag_text, Len(COMMENT_OPEN) + 1, BodyEnd(tag_text))
        /\ tag.cursor = BodyEnd(tag_text) + Len(COMMENT_CLOSE)

\* a comment with no - in its body is returned whole, IsComment and IsVoid
\* set, the cursor after its -->
C29_PlainComment ==
    (/\ tag.done /\ CommentForm(tag_text)
     /\ \A i \in (Len(COMMENT_OPEN) + 1)..BodyEnd(tag_text) : tag_text[i] # "-") =>
        /\ tag.err = NoError
        /\ tag.elem.IsComment
        /\ tag.elem.IsVoid
        /\ tag.elem.ElementName = ELEMENT_INTERNAL_XML_COMMENT
        /\ tag.elem.InnerHTML =
               SubSeq(tag_text, Len(COMMENT_OPEN) + 1, BodyEnd(tag_text))
        /\ tag.cursor = BodyEnd(tag_text) + Len(COMMENT_CLOSE)

-----------------------------------------------------------------------------
(* Tag names *)

\* <NAME>, <NAME attrs> or <NAME/>
NamedForm(d) == OpenForm(d) \/ (SlashForm(d) /\ Len(d) = 4)

\* the document starts with such a tag: the number of its pieces
NamedTag(d) ==
    IF \E n \in 1..Len(d) : NamedForm(SubSeq(d, 1, n))
    THEN CHOOSE n \in 1..Len(d) : NamedForm(SubSeq(d, 1, n))
    ELSE 0

\* C30: for a tag <NAME>, <NAME/> or <NAME attrs> whose NAME is a run of
\* characters without whitespace, > and /, a - among them or not, readTag
\* returns a record whose name is NAME in lower case and stops at the end of
\* the tag.
C30_TagName ==
    (tag.done /\ NamedTag(doc) > 0) =>
        /\ tag.err = NoError
        /\ tag.elem.ElementName = doc[2].name
        /\ tag.cursor = Len(Flatten(SubSeq(doc, 1, NamedTag(doc))))

\* for <NAME> and <NAME attrs> with no - in NAME the name returned is NAME
\* in lower case and the cursor is after the tag
C30_NameWithoutDash ==
    (/\ tag.done /\ NamedTag(doc) > 0 /\ OpenForm(SubSeq(doc, 1, NamedTag(doc)))
     /\ \A i \in DOMAIN doc[2].text : doc[2].text[i] # "-") =>
        /\ tag.err = NoError
        /\ tag.elem.ElementName = doc[2].name
        /\ tag.cursor = Len(Flatten(SubSeq(doc, 1, NamedTag(doc))))

-----------------------------------------------------------------------------
(* Quoted attribute values *)

\* the index of the last character q among the first n characters of text
LastBefore(text, n, q) ==
    CHOOSE i \in 1..n : text[i] = q /\ \A j \in (i + 1)..n : text[j] # q

\* readTag is about to read a character
Reading == ~tag.done /\ tag.cursor < Len(tag_text)

\* while a quoted value is read, the value read so far is what the input
\* holds after the quote that opened it
C31_Value ==
    (Reading /\ tag.state = 102) =>
        tag.attr_value =
            SubSeq(tag_text,
                   LastBefore(tag_text, tag.cursor, tag.quote_character) + 1,
                   tag.cursor)

\* a quote after = opens a value; in the value every character but the
\* quote that opened it is added to the value, and that quote stores the
\* characters between the two under the lower-cased name
C31_Step ==
    LET c == tag_text[tag.cursor + 1] IN
    /\ (Reading /\ tag.state = 101 /\ c \in {quote_single, quote_double}) =>
           /\ tag'.state = 102
           /\ tag'.quote_character = c
           /\ tag'.attr_value = EMPTY
    /\ (Reading /\ tag.state = 102) =>
           IF c = tag.quote_character
           THEN /\ tag'.elem.Attributes =
                       MapPut(tag.elem.Attributes, ToLower(tag.attr_name),
                              SubSeq(tag_text,
                                     LastBefore(tag_text, tag.cursor, c) + 1,
                                     tag.cursor))
                /\ tag'.state = 20
                /\ ~tag'.done
           ELSE /\ tag'.state = 102
                /\ ~tag'.done
                /\ tag'.elem = tag.elem
                /\ tag'.quote_character = tag.quote_character
                /\ tag'.attr_value = Append(tag.attr_value, c)

\* the tag of a document with one quoted attribute is returned with the
\* value written between the quotes
C31_Stored ==
    (tag.done /\ doc \in QuotedDocs) =>
        /\ tag.err = NoError
        /\ tag.elem.Attributes[<<"k">>] = doc[3].attrs

\* C31: a quoted attribute value is ended only by the quote character that
\* opened it: the value stored is the characters between the two quotes,
\* whitespace, =, /, > and the other quote character included, and two
\* quotes with nothing between them store the empty value.
C31_QuotedValue == []C31_Value /\ [][C31_Step]_vars /\ []C31_Stored

\* <a K='">'> has been read: the value is "> and the cursor is after the tag
C31_Witness ==
    /\ doc = <<Lt, NameA, AttrQuoted(quote_single, <<quote_double, ">">>), Gt>>
    /\ tag.done
    /\ tag.err = NoError
    /\ tag.elem.ElementName = <<"a">>
    /\ DOMAIN tag.elem.Attributes = {<<"k">>}
    /\ tag.elem.Attributes[<<"k">>] = <<quote_double, ">">>
    /\ tag.cursor = Len(tag_text)

-----------------------------------------------------------------------------
(* Unquoted attribute values *)

\* a character after = that is neither whitespace nor a quote starts a
\* value; in the value every character but whitespace is added to the
\* value, > and / included, and whitespace stores the value under the
\* lower-cased name
C32_Step ==
    LET c == tag_text[tag.cursor + 1] IN
    /\ (Reading /\ tag.state = 101 /\ ~isWhitespace(c)
           /\ c \notin {quote_single, quote_double}) =>
           /\ tag'.state = 103
           /\ tag'.attr_value = <<c>>
           /\ ~tag'.done
    /\ (Reading /\ tag.state = 103) =>
           IF isWhitespace(c)
           THEN /\ tag'.elem.Attributes =
                       MapPut(tag.elem.Attributes, ToLower(tag.attr_name),
                              tag.attr_value)
                /\ tag'.state = 20
                /\ ~tag'.done
           ELSE /\ tag'.state = 103
                /\ ~tag'.done
                /\ tag'.elem = tag.elem
                /\ tag'.attr_value = Append(tag.attr_value, c)

\* the tag of a document with one unquoted attribute followed by a blank is
\* returned with the value written, and the cursor after the > that follows
\* the blank
C32_Stored ==
    (tag.done /\ doc \in UnquotedDocs) =>
        /\ tag.err = NoError
        /\ tag.elem.Attributes[<<"k">>] = doc[3].attrs
        /\ tag.cursor >= Len(Flatten(SubSeq(doc, 1, 4))) + 1

\* C32: an unquoted attribute value is ended by whitespace only: every
\* other character, > and / included, is added to the value, so K=a>b
\* before whitespace stores a>b and that > does not end the tag.
C32_UnquotedValue == [][C32_Step]_vars /\ []C32_Stored

\* <a K=a>b > has been read: the value is a>b and the tag ends at the
\* second >
C32_Witness ==
    /\ doc = <<Lt, NameA, AttrUnquoted(<<"a",">","b">>), Blank, Gt>>
    /\ tag.done
    /\ tag.err = NoError
    /\ tag.elem.ElementName = <<"a">>
    /\ DOMAIN tag.elem.Attributes = {<<"k">>}
    /\ tag.elem.Attributes[<<"k">>] = <<"a",">","b">>
    /\ tag.cursor = Len(tag_text)

-----------------------------------------------------------------------------
(* Attribute names *)

\* the attributes written in a tag, each name with the value written last
LastWritten(d) ==
    LET at == {i \in 1..Len(d) : d[i].kind = "attr"} IN
    [k \in {d[i].name : i \in at} |->
        d[CHOOSE i \in at :
              /\ d[i].name = k
              /\ \A j \in at : d[j].name = k => j <= i].attrs]

\* every key of the record being filled is lower case
C33_Keys == \A k \in DOMAIN tag.elem.Attributes : k = ToLower(k)

\* a name followed by whitespace, / or > is stored under its lower-cased
\* name with the empty value, whatever the record held under that name,
\* without an error; a quoted value is stored as read
C33_Step ==
    LET c == tag_text[tag.cursor + 1] IN
    /\ (Reading /\ tag.state = 100 /\ (isWhitespace(c) \/ c \in {"/", ">"})) =>
           /\ tag'.elem.Attributes =
                  MapPut(tag.elem.Attributes, ToLower(tag.attr_name), EMPTY)
           /\ tag'.state = 20
           /\ tag'.err = NoError
    /\ (Reading /\ tag.state = 102 /\ c = tag.quote_character) =>
           /\ tag'.elem.Attributes =
                  MapPut(tag.elem.Attributes, ToLower(tag.attr_name),
                         tag.attr_value)
           /\ tag'.err = NoError

\* the tag of a document of attributes is returned without an error, with
\* the lower-cased names written and for each of them the value written last
C33_Stored ==
    (tag.done /\ doc \in AttrDocs) =>
        /\ tag.err = NoError
        /\ tag.elem.ElementName = <<"a">>
        /\ tag.elem.Attributes = LastWritten(doc)

\* C33: the keys of a record's attributes are lower case and unique: a name
\* followed by whitespace, / or > is stored under its lower-cased name with
\* the empty value, values keep their case, and of two attributes with the
\* same name in any letter case the later one is kept, without an error.
C33_AttributeKeys == []C33_Keys /\ [][C33_Step]_vars /\ []C33_Stored

\* <a k="v" K="Ww" iD> has been read: k holds the later value Ww, in its
\* case, and id the empty value
C33_Witness ==
    /\ doc = <<Lt, NameA, AttrKV, AttrKW, BoolID, Gt>>
    /\ tag.done
    /\ tag.err = NoError
    /\ DOMAIN tag.elem.Attributes = {<<"k">>, <<"i","d">>}
    /\ tag.elem.Attributes[<<"k">>] = <<"W","w">>
    /\ tag.elem.Attributes[<<"i","d">>] = EMPTY

-----------------------------------------------------------------------------
(* Declarations *)

\* the text read starts with <! and goes on with a character other than -
DeclForm ==
    /\ Len(tag_text) >= 3
    /\ tag_text[1] = "<"
    /\ tag_text[2] = "!"
    /\ tag_text[3] # "-"

\* C34: a construct that starts with <! and goes on with a character other
\* than - is returned as a void record that is not a comment.
C34_Declaration ==
    (tag.done /\ tag.err = NoError /\ DeclForm) =>
        /\ tag.elem.IsVoid
        /\ ~tag.elem.IsComment

\* a second ! leads back to the state that opens a comment, and a / marks
\* the record as a close tag: without them the record is void, neither a
\* comment nor a close tag, and <!DOCTYPE> and <!DOCTYPE html> are returned
\* under the name doctype, the first without attributes and the second with
\* html and the empty value
C34_Doctype ==
    /\ (tag.done /\ tag.err = NoError /\ doc \in DeclDocs
           /\ \A i \in 3..Len(doc) : doc[i] \notin {Bang, Slash}) =>
           /\ tag.elem.IsVoid
           /\ ~tag.elem.IsComment
           /\ ~tag.elem.IsClose
    /\ (tag.done /\ doc = <<Lt, Bang, Doctype, Gt>>) =>
           /\ tag.err = NoError
           /\ tag.elem.ElementName = <<"d","o","c","t","y","p","e">>
           /\ DOMAIN tag.elem.Attributes = {}
    /\ (tag.done /\ doc = <<Lt, Bang, Doctype, BoolHTML, Gt>>) =>
           /\ tag.err = NoError
           /\ tag.elem.ElementName = <<"d","o","c","t","y","p","e">>
           /\ tag.elem.Attributes = LastWritten(doc)
           /\ tag.elem.Attributes[<<"h","t","m","l">>] = EMPTY

-----------------------------------------------------------------------------
(* The inner span of a closed element *)

\* the close tag just read matches the element being filled, which ends
\* this level
Matched ==
    /\ pc = "dispatch"
    /\ read_tag.IsClose
    /\ pc' = "return"
    /\ err' = NoError

\* the place of the < of the tag that ends at the cursor
CloseStart == LastBefore(body, cursor, "<")

\* C35: the inner span recorded on an element closed by its matching close
\* tag starts after the > of its open tag and ends before the < of that
\* close tag, so the close tag is not part of it.
C35_InnerSpan ==
    [][Matched =>
          /\ body[TopFrame.parse_start] = ">"
          /\ frames'[Len(frames)].parentElement.InnerHTML =
                 SubSeq(body, TopFrame.parse_start + 1, CloseStart - 1)]_vars

\* the span recorded starts after the > of the open tag and ends at the
\* cursor, which the close tag left after its >: it is the children's text
\* followed by the close tag
C35_SpanWithCloseTag ==
    [][Matched =>
          /\ body[TopFrame.parse_start] = ">"
          /\ frames'[Len(frames)].parentElement.InnerHTML =
                 SubSeq(body, TopFrame.parse_start + 1, CloseStart - 1)
                     \o SubSeq(body, CloseStart, cursor)
          /\ body[cursor] = ">"
          /\ CloseStart > TopFrame.parse_start]_vars

-----------------------------------------------------------------------------
(* The nodes of a returned tree *)

\* C36: every node of a returned tree but the root has a name that is not
\* empty, and the tree returned for a text without tags is a root with one
\* child, the text leaf: the end of the input adds no node.
C36_NamedNodes ==
    /\ \A n \in ReturnedNodes : ~n.IsRoot => n.ElementName # EMPTY
    /\ \A m \in BOOLEAN :
           (out[m].returned /\ doc = <<TextX>>) =>
               /\ Len(out[m].root.Children) = 1
               /\ out[m].root.Children[1].IsText

\* a node with an empty name is the last child of its parent, without
\* children, attributes or inner text, and it is neither text nor void: it
\* is the element that the tag read at the end of the input makes; the text
\* leaf is the first child of the root of a text without tags
C36_EmptyNameAtEnd ==
    /\ \A n \in ReturnedNodes : \A i \in DOMAIN n.Children :
           n.Children[i].ElementName = EMPTY =>
               /\ i = Len(n.Children)
               /\ n.Children[i].Children = <<>>
               /\ DOMAIN n.Children[i].Attributes = {}
               /\ n.Children[i].InnerHTML = EMPTY
               /\ ~n.Children[i].IsText
               /\ ~n.Children[i].IsVoid
    /\ \A m \in BOOLEAN :
           (out[m].returned /\ doc = <<TextX>>) =>
               /\ Len(out[m].root.Children) = 2
               /\ out[m].root.Children[1] = newTextNode(TextX.text)

-----------------------------------------------------------------------------
(* readUntilTag *)

\* the cursor of the first < of text after the cursor c, and the length of
\* text when there is none
NextLt(text, c) ==
    IF \E i \in (c + 1)..Len(text) : text[i] = "<"
    THEN (CHOOSE i \in (c + 1)..Len(text) :
              /\ text[i] = "<"
              /\ \A j \in (c + 1)..(i - 1) : text[j] # "<") - 1
    ELSE Len(text)

\* from every cursor of the input, readUntilTag returns the characters up
\* to the next <, the first ones included when they are whitespace, leaves
\* the cursor there and returns no error
C37_Run ==
    \A c \in 0..Len(body) :
        LET r == readUntilTag(body, c) IN
        /\ r.results = SubSeq(body, c + 1, NextLt(body, c))
        /\ r.cursor = NextLt(body, c)
        /\ r.err = NoError
        /\ (c < Len(body) /\ body[c + 1] = "<") =>
               r.results = EMPTY /\ r.cursor = c

\* the tree builder's scan of a text run moves the cursor as readUntilTag
\* does and does not end the level
C37_Step ==
    (pc = "loop" /\ pc' = "tag") =>
        /\ cursor' = NextLt(body, cursor)
        /\ cursor' = Len(body) \/ body[cursor' + 1] = "<"
        /\ err' = err

\* C37: readUntilTag returns the characters from the cursor up to the next
\* <, which is left out (all the characters left when there is none, none
\* when the cursor is on a <), leaves the cursor on that < or at the end of
\* the input, keeps the leading whitespace and returns no error.
C37_ReadUntilTag == []C37_Run /\ [][C37_Step]_vars

\* the run of a blank and x before <a> has been scanned: the cursor is on
\* the < and the leaf holds the blank and the x
C37_Witness ==
    /\ doc = <<Space, TextX, OpenA>>
    /\ pc = "tag"
    /\ cursor = 2
    /\ body[cursor + 1] = "<"
    /\ readUntilTag(body, 0).results = <<" ", "x">>
    /\ Len(frames) = 1
    /\ frames[1].parentElement.Children = <<newTextNode(<<" ", "x">>)>>

=============================================================================
